---- MODULE Spec2Model ----
(***************************************************************************)
(* Aviation traffic analysis (src/data_exploration): the period filter,    *)
(* the period aggregator and the analysis entry points built on them,      *)
(* modelled as operators over record tables, and a state machine whose     *)
(* actions are the calls a client makes on one loaded table.               *)
(*                                                                         *)
(* Numbers: passenger counts are integers; tonnages (freight, mail) are    *)
(* integers in thousandths of a tonne, the resolution the loader rounds    *)
(* to (utilities.py:15).                                                   *)
(***************************************************************************)
EXTENDS Integers, Sequences, FiniteSets, TLC

VARIABLES df, call, result

vars == <<df, call, result>>

-----------------------------------------------------------------------------
(* Strings: Python compares str by code point.                             *)

\* The characters that occur in names, in ascending code-point order.
Alphabet == " ,-.0123456789ABCDEFGHIJKLMNOPQRSTUVWXYZ_abcdefghijklmnopqrstuvwxyz"

CharCode(c) == CHOOSE i \in 1..Len(Alphabet) : SubSeq(Alphabet, i, i) = c

RECURSIVE StrLessFrom(_, _, _)
StrLessFrom(a, b, i) ==
    IF i > Len(b) THEN FALSE
    ELSE IF i > Len(a) THEN TRUE
    ELSE LET ca == CharCode(SubSeq(a, i, i))
             cb == CharCode(SubSeq(b, i, i))
         IN  IF ca # cb THEN ca < cb ELSE StrLessFrom(a, b, i + 1)

\* a < b as Python strings.
StrLess(a, b) == StrLessFrom(a, b, 1)

\* sorted(S) for a set of strings.
RECURSIVE SortStrings(_)
SortStrings(S) ==
    IF S = {} THEN <<>>
    ELSE LET m == CHOOSE x \in S : \A y \in S \ {x} : StrLess(x, y)
         IN  <<m>> \o SortStrings(S \ {m})

\* sorted(S) for a set of integers.
RECURSIVE SortInts(_)
SortInts(S) ==
    IF S = {} THEN <<>>
    ELSE LET m == CHOOSE x \in S : \A y \in S : x <= y
         IN  <<m>> \o SortInts(S \ {m})

\* ', '.join(names)
RECURSIVE Join(_)
Join(names) ==
    IF names = <<>> THEN ""
    ELSE IF Len(names) = 1 THEN names[1]
    ELSE names[1] \o ", " \o Join(Tail(names))

Digit(d) == SubSeq("0123456789", d + 1, d + 1)

RECURSIVE NatToStr(_)
NatToStr(n) == IF n < 10 THEN Digit(n) ELSE NatToStr(n \div 10) \o Digit(n % 10)

\* str(n) of a Python int.
IntToStr(n) == IF n < 0 THEN "-" \o NatToStr(0 - n) ELSE NatToStr(n)

Range(s) == {s[i] : i \in DOMAIN s}

-----------------------------------------------------------------------------
(* The record table.                                                       *)

\* A missing value of a pandas column (an empty CSV field).
NaN == "<NaN>"

PassengerCols == <<"Passengers_In", "Passengers_Out", "Passengers_Total">>
FreightCols == <<"Freight_In_(tonnes)", "Freight_Out_(tonnes)", "Freight_Total_(tonnes)">>
MailCols == <<"Mail_In_(tonnes)", "Mail_Out_(tonnes)", "Mail_Total_(tonnes)">>

MetricCols == Range(PassengerCols) \cup Range(FreightCols) \cup Range(MailCols)

KeyCols == {"Year", "Month", "AustralianPort", "ForeignPort", "Country", "Route"}

AllCols == KeyCols \cup MetricCols

\* df['Route'] = df['AustralianPort'] + '-' + df['ForeignPort']: NaN if either is.
MakeRoute(ap, fp) == IF ap = NaN \/ fp = NaN THEN NaN ELSE ap \o "-" \o fp

CountryOf(fp) ==
    CASE fp = "London" -> "UK"
      [] fp = "Tokyo" -> "Japan"
      [] OTHER -> NaN

\* One row of the table after create_datetime_index. m is <<pIn, pOut, fIn, fOut,
\* mIn, mOut>>; the totals are In + Out, as the loader's check expects.
MakeRecord(y, mo, ap, fp, m) ==
    [c \in AllCols |->
        CASE c = "Year" -> y
          [] c = "Month" -> mo
          [] c = "AustralianPort" -> ap
          [] c = "ForeignPort" -> fp
          [] c = "Country" -> CountryOf(fp)
          [] c = "Route" -> MakeRoute(ap, fp)
          [] c = "Passengers_In" -> m[1]
          [] c = "Passengers_Out" -> m[2]
          [] c = "Passengers_Total" -> m[1] + m[2]
          [] c = "Freight_In_(tonnes)" -> m[3]
          [] c = "Freight_Out_(tonnes)" -> m[4]
          [] c = "Freight_Total_(tonnes)" -> m[3] + m[4]
          [] c = "Mail_In_(tonnes)" -> m[5]
          [] c = "Mail_Out_(tonnes)" -> m[6]
          [] c = "Mail_Total_(tonnes)" -> m[5] + m[6]]

\* A table: its columns and its rows, each row a function on the columns.
Table(cols, rows) == [columns |-> cols, rows |-> rows]

\* The table without the columns in drop.
DropColumns(t, drop) ==
    Table(t.columns \ drop,
          [i \in DOMAIN t.rows |-> [c \in t.columns \ drop |-> t.rows[i][c]]])

\* sum of column col over the rows (a sequence).
RECURSIVE SumCol(_, _)
SumCol(rows, col) ==
    IF rows = <<>> THEN 0 ELSE rows[1][col] + SumCol(Tail(rows), col)

\* a < b for <<Year, Month>> pairs: sort_values(['Year', 'Month']).
PairLess(a, b) == a[1] < b[1] \/ (a[1] = b[1] /\ a[2] < b[2])

RECURSIVE SortPairs(_)
SortPairs(S) ==
    IF S = {} THEN <<>>
    ELSE LET m == CHOOSE x \in S : \A y \in S \ {x} : PairLess(x, y)
         IN  <<m>> \o SortPairs(S \ {m})

RECURSIVE SortPairsDescending(_)
SortPairsDescending(S) ==
    IF S = {} THEN <<>>
    ELSE LET m == CHOOSE x \in S : \A y \in S \ {x} : PairLess(y, x)
         IN  <<m>> \o SortPairsDescending(S \ {m})

\* MonthPeriods sorted with ascending=False.
MonthPeriodsDescending(t) ==
    SortPairsDescending({<<t.rows[i]["Year"], t.rows[i]["Month"]>> : i \in DOMAIN t.rows})

\* df[['Year', 'Month']].drop_duplicates().sort_values(['Year', 'Month'])
MonthPeriods(t) == SortPairs({<<t.rows[i]["Year"], t.rows[i]["Month"]>> : i \in DOMAIN t.rows})

\* YearPeriods without unique(): one entry per (Year, Month) present.
YearPeriodsPerMonth(t) == [i \in DOMAIN MonthPeriods(t) |-> MonthPeriods(t)[i][1]]

\* sorted(df['Year'].unique())
YearPeriods(t) == SortInts({t.rows[i]["Year"] : i \in DOMAIN t.rows})

\* df[(df['Year'] == year) & (df['Month'] == month)]
RowsOfMonth(t, year, month) ==
    LET keep(r) == r["Year"] = year /\ r["Month"] = month
    IN  Table(t.columns, SelectSeq(t.rows, keep))

\* df[df['Year'] == year]
RowsOfYear(t, year) ==
    LET keep(r) == r["Year"] = year
    IN  Table(t.columns, SelectSeq(t.rows, keep))

\* period_data.groupby(group_col)[cols].sum(): the groups are the distinct non-NaN
\* keys in ascending order (sort=True, dropna=True), each with its column sums.
GroupBySum(t, group_col, cols) ==
    LET keys == SortStrings({t.rows[i][group_col] : i \in DOMAIN t.rows} \ {NaN})
    IN  [index |-> keys,
         columns |-> cols,
         data |-> [k \in Range(keys) |->
                     LET member(r) == r[group_col] = k
                     IN  [c \in cols |-> SumCol(SelectSeq(t.rows, member), c)]]]

-----------------------------------------------------------------------------
(* utilities.py                                                            *)

\* PeriodMask with the end month excluded.
PeriodMaskEndExclusive(r, start_year, start_month, end_year, end_month) ==
    \/ (r["Year"] = start_year /\ r["Month"] >= start_month)
    \/ (r["Year"] > start_year /\ r["Year"] < end_year)
    \/ (r["Year"] = end_year /\ r["Month"] < end_month)

\* PeriodMask with the month bounds conjoined within a single year.
PeriodMaskConjoined(r, start_year, start_month, end_year, end_month) ==
    IF start_year = end_year
    THEN r["Year"] = start_year /\ r["Month"] >= start_month /\ r["Month"] <= end_month
    ELSE \/ (r["Year"] = start_year /\ r["Month"] >= start_month)
         \/ (r["Year"] > start_year /\ r["Year"] < end_year)
         \/ (r["Year"] = end_year /\ r["Month"] <= end_month)

\* The boolean mask of filter_data_by_period for one row.
PeriodMask(r, start_year, start_month, end_year, end_month) ==
    \/ (r["Year"] = start_year /\ r["Month"] >= start_month)
    \/ (r["Year"] > start_year /\ r["Year"] < end_year)
    \/ (r["Year"] = end_year /\ r["Month"] <= end_month)

filter_data_by_period(data, start_year, start_month, end_year, end_month) ==
    LET keep(r) == PeriodMask(r, start_year, start_month, end_year, end_month)
    IN  Table(data.columns, SelectSeq(data.rows, keep))

\* get_cargo_columns(): cargo type -> its in and out columns.
get_cargo_columns ==
    [passengers |-> [in |-> "Passengers_In", out |-> "Passengers_Out", total |-> "Passengers_Total"],
     freight |-> [in |-> "Freight_In_(tonnes)", out |-> "Freight_Out_(tonnes)", total |-> "Freight_Total_(tonnes)"],
     mail |-> [in |-> "Mail_In_(tonnes)", out |-> "Mail_Out_(tonnes)", total |-> "Mail_Total_(tonnes)"]]

get_default_cargo_weights == [passengers |-> 1, freight |-> 10, mail |-> 20]

\* One cell of groupby(group_col).agg(agg_dict): 'sum', or 'nunique' (the number of
\* distinct non-NaN values).
AggregateCell(rows, col, how) ==
    IF how = "sum" THEN SumCol(rows, col)
    ELSE Cardinality({rows[i][col] : i \in DOMAIN rows} \ {NaN})

\* period_data.groupby(group_col).agg(agg_dict).reset_index(): one row per distinct
\* non-NaN key, in ascending key order.
Aggregate(period_data, group_col, agg_dict) ==
    LET keys == SortStrings({period_data.rows[i][group_col] : i \in DOMAIN period_data.rows} \ {NaN})
    IN  Table({group_col} \cup DOMAIN agg_dict,
              [i \in DOMAIN keys |->
                  LET member(r) == r[group_col] = keys[i]
                      rows == SelectSeq(period_data.rows, member)
                  IN  [c \in {group_col} \cup DOMAIN agg_dict |->
                          IF c = group_col THEN keys[i]
                          ELSE AggregateCell(rows, c, agg_dict[c])]])

\* The exception groupby(...).agg(agg_dict) raises in the first period: KeyError for
\* a column the table lacks, ValueError for an empty agg_dict; "none" otherwise.
AggregateError(filtered_df, agg_dict) ==
    IF filtered_df.rows = <<>> THEN "none"
    ELSE IF ~(DOMAIN agg_dict \subseteq filtered_df.columns) THEN "KeyError"
    ELSE IF DOMAIN agg_dict = {} THEN "ValueError"
    ELSE "none"

\* Python's None in the month slot of a period (months are 1..12).
None == 0

\* The list of (year, month, aggregated) the function returns; month is None in the
\* Year branch, which is taken for every aggregate_by but 'Month'.
filter_and_aggregate_by_period(data, start_year, start_month, end_year, end_month, group_col, agg_dict, aggregate_by) ==
    LET filtered_df == filter_data_by_period(data, start_year, start_month, end_year, end_month)
    IN  IF aggregate_by = "Month"
        THEN LET periods == MonthPeriods(filtered_df)
             IN  [i \in DOMAIN periods |->
                     [year |-> periods[i][1], month |-> periods[i][2],
                      aggregated |-> Aggregate(RowsOfMonth(filtered_df, periods[i][1], periods[i][2]),
                                               group_col, agg_dict)]]
        ELSE LET years == YearPeriods(filtered_df)
             IN  [i \in DOMAIN years |->
                     [year |-> years[i], month |-> None,
                      aggregated |-> Aggregate(RowsOfYear(filtered_df, years[i]), group_col, agg_dict)]]

\* Scores are exact rationals <<numerator, denominator>> with denominator > 0; the
\* floats a division by zero leaves are inf <<1, 0>>, -inf <<-1, 0>> and nan <<0, 0>>.
\* a < b; every comparison with nan is false.
RatLess(a, b) ==
    IF a = <<0, 0>> \/ b = <<0, 0>> THEN FALSE
    ELSE IF a[2] = 0 /\ b[2] = 0 THEN a[1] < b[1]
    ELSE IF a[2] = 0 THEN a[1] < 0
    ELSE IF b[2] = 0 THEN b[1] > 0
    ELSE a[1] * b[2] < b[1] * a[2]

RECURSIVE Gcd(_, _)
Gcd(a, b) == IF b = 0 THEN a ELSE Gcd(b, a % b)

Abs(x) == IF x < 0 THEN 0 - x ELSE x

RatNorm(a) ==
    LET g == Gcd(Abs(a[1]), a[2])
    IN  IF g = 0 THEN a ELSE <<a[1] \div g, a[2] \div g>>

\* inf + inf = inf; inf - inf and every sum with nan are nan.
RatAdd(a, b) ==
    IF a[2] = 0 /\ b[2] = 0 /\ a = b THEN a
    ELSE RatNorm(<<a[1] * b[2] + b[1] * a[2], a[2] * b[2]>>)

RECURSIVE RatSum(_, _)
RatSum(rows, col) ==
    IF rows = <<>> THEN <<0, 1>> ELSE RatAdd(rows[1][col], RatSum(Tail(rows), col))

\* rows[col].mean(): the mean of the values that are not nan (skipna), nan when
\* there is none.
RatMean(rows, col) ==
    LET notna(r) == r[col] # <<0, 0>>
        values == SelectSeq(rows, notna)
        t == RatSum(values, col)
    IN  RatNorm(<<t[1], t[2] * Len(values)>>)

RECURSIVE Pow10(_)
Pow10(k) == IF k = 0 THEN 1 ELSE 10 * Pow10(k - 1)

RECURSIVE ZeroPad(_, _)
ZeroPad(str, width) == IF Len(str) >= width THEN str ELSE ZeroPad("0" \o str, width)

\* f"{x:.<places>f}" of the rational x (rounded half to even).
FormatFixed(x, places) ==
    IF x[2] = 0 THEN (IF x[1] > 0 THEN "inf" ELSE IF x[1] < 0 THEN "-inf" ELSE "nan")
    ELSE LET n == Abs(x[1]) * Pow10(places)
             q == n \div x[2]
             r == n % x[2]
             t == IF 2 * r > x[2] \/ (2 * r = x[2] /\ q % 2 = 1) THEN q + 1 ELSE q
         IN  (IF x[1] < 0 THEN "-" ELSE "")
                 \o NatToStr(t \div Pow10(places)) \o "."
                 \o ZeroPad(NatToStr(t % Pow10(places)), places)

\* The index of the row nlargest / nsmallest takes next among the indices left: the
\* extreme of sort_col, the first in table order among equals (keep='first'); the
\* rows whose value is nan come after all others, in table order.
NextBest(rows, sort_col, left, ascending) ==
    LET v(i) == rows[i][sort_col]
        isna(i) == v(i) = <<0, 0>>
        before(i, j) ==
            IF isna(i) \/ isna(j) THEN (~isna(i) /\ isna(j)) \/ (isna(i) /\ isna(j) /\ i < j)
            ELSE IF ascending
                 THEN RatLess(v(i), v(j)) \/ (~RatLess(v(j), v(i)) /\ i < j)
                 ELSE RatLess(v(j), v(i)) \/ (~RatLess(v(i), v(j)) /\ i < j)
    IN  CHOOSE i \in left : \A j \in left \ {i} : before(i, j)

RECURSIVE TakeBest(_, _, _, _, _)
TakeBest(rows, sort_col, left, ascending, n) ==
    IF n <= 0 \/ left = {} THEN <<>>
    ELSE LET i == NextBest(rows, sort_col, left, ascending)
         IN  <<rows[i]>> \o TakeBest(rows, sort_col, left \ {i}, ascending, n - 1)

\* get_top_entities that takes the largest whatever the level.
GetTopEntitiesAlwaysLargest(data, sort_col, level, top_n) ==
    IF data = <<>> THEN data
    ELSE TakeBest(data, sort_col, DOMAIN data, FALSE, top_n)

\* data is the sequence of rows of the table. Every level but 'Least' ranks as 'Most'.
get_top_entities(data, sort_col, level, top_n) ==
    IF data = <<>> THEN data
    ELSE TakeBest(data, sort_col, DOMAIN data, level = "Least", top_n)

\* result = {'Year': year}, and 'Month' when month is not None: the part of
\* format_results_summary its callers use.
format_results_summary(year, month) ==
    IF month # None THEN [Year |-> year, Month |-> month] ELSE [Year |-> year]

-----------------------------------------------------------------------------
(* analysis_functions.py: analyze_traffic_routes                           *)

\* col_mapping: traffic type -> <<in_col, out_col, total_col, unit_suffix>>.
col_mapping ==
    [Passengers |-> <<"Passengers_In", "Passengers_Out", "Passengers_Total", "">>,
     Freight |-> <<"Freight_In_(tonnes)", "Freight_Out_(tonnes)", "Freight_Total_(tonnes)", "t">>,
     Mail |-> <<"Mail_In_(tonnes)", "Mail_Out_(tonnes)", "Mail_Total_(tonnes)", "t">>]

\* RouteArgumentError without the check of aggregate_by.
RouteArgumentErrorTwoChecks(traffic_level, traffic_type, aggregate_by) ==
    IF traffic_type \notin DOMAIN col_mapping THEN "ValueError"
    ELSE IF traffic_level \notin {"Most", "Least"} THEN "ValueError"
    ELSE "none"

\* The argument checks at the head of analyze_traffic_routes: the error raised, or
\* "none".
RouteArgumentError(traffic_level, traffic_type, aggregate_by) ==
    IF traffic_type \notin DOMAIN col_mapping THEN "ValueError"
    ELSE IF traffic_level \notin {"Most", "Least"} THEN "ValueError"
    ELSE IF aggregate_by \notin {"Month", "Year"} THEN "ValueError"
    ELSE "none"

\* The boolean mask written inline in analyze_traffic_routes.
InlinePeriodMask(r, start_year, start_month, end_year, end_month) ==
    \/ (r["Year"] = start_year /\ r["Month"] >= start_month)
    \/ (r["Year"] > start_year /\ r["Year"] < end_year)
    \/ (r["Year"] = end_year /\ r["Month"] <= end_month)

\* FormatValue with one decimal place whatever the suffix.
FormatValueAlwaysDecimal(v, unit_suffix) ==
    IF unit_suffix = "" THEN IntToStr(v) \o ".0"
    ELSE NatToStr(v \div 1000) \o "." \o Digit((v \div 100) % 10) \o unit_suffix

\* f"{int(extreme_value)}" without a unit suffix; f"{extreme_value:.1f}{unit_suffix}"
\* with one. A tonnage v is in thousandths; .1f rounds it to tenths (half to even,
\* which binary floating point reaches only for the few exactly representable ties).
FormatValue(v, unit_suffix) ==
    IF unit_suffix = "" THEN IntToStr(v)
    ELSE LET a == IF v < 0 THEN 0 - v ELSE v
             q == a \div 100
             r == a % 100
             t == IF r > 50 \/ (r = 50 /\ q % 2 = 1) THEN q + 1 ELSE q
         IN  (IF v < 0 /\ t > 0 THEN "-" ELSE "")
                 \o NatToStr(t \div 10) \o "." \o Digit(t % 10) \o unit_suffix

\* route_data[col].max() or .min() by traffic_level.
ExtremeValue(route_data, col, traffic_level) ==
    LET vals == {route_data.data[k][col] : k \in Range(route_data.index)}
    IN  IF traffic_level = "Most"
        THEN CHOOSE v \in vals : \A w \in vals : w <= v
        ELSE CHOOSE v \in vals : \A w \in vals : v <= w

\* TiedRoutes with a single winner, as idxmax() / idxmin() would give.
TiedRoutesFirstOnly(route_data, col, extreme_value) ==
    LET tied(k) == route_data.data[k][col] = extreme_value
    IN  <<Head(SelectSeq(route_data.index, tied))>>

\* route_data[route_data[col] == extreme_value].index.tolist()
TiedRoutes(route_data, col, extreme_value) ==
    LET tied(k) == route_data.data[k][col] = extreme_value
    IN  SelectSeq(route_data.index, tied)

\* The two fields one direction adds to a result row.
DirectionFields(route_data, direction, col, traffic_level, unit_suffix) ==
    IF route_data.index # <<>> /\ col \in route_data.columns
    THEN LET extreme_value == ExtremeValue(route_data, col, traffic_level)
             tied_routes == TiedRoutes(route_data, col, extreme_value)
         IN  (direction \o "_Route") :> Join(tied_routes)
                 @@ (direction \o "_Value") :> FormatValue(extreme_value, unit_suffix)
    ELSE (direction \o "_Route") :> "No data" @@ (direction \o "_Value") :> "No data"

\* The body of the per-period loop: the row of one period.
RouteRow(period_data, head, traffic_level, cols) ==
    LET route_data == GroupBySum(period_data, "Route", {cols[1], cols[2], cols[3]})
    IN  head @@ DirectionFields(route_data, "In", cols[1], traffic_level, cols[4])
             @@ DirectionFields(route_data, "Out", cols[2], traffic_level, cols[4])
             @@ DirectionFields(route_data, "Total", cols[3], traffic_level, cols[4])

\* The rows of the Month branch and of the Year branch.
RouteRows(filtered_df, traffic_level, cols, aggregate_by) ==
    IF aggregate_by = "Month"
    THEN LET periods == MonthPeriods(filtered_df)
         IN  [i \in DOMAIN periods |->
                 RouteRow(RowsOfMonth(filtered_df, periods[i][1], periods[i][2]),
                          [Year |-> periods[i][1], Month |-> periods[i][2]],
                          traffic_level, cols)]
    ELSE LET years == YearPeriods(filtered_df)
         IN  [i \in DOMAIN years |->
                 RouteRow(RowsOfYear(filtered_df, years[i]), [Year |-> years[i]],
                          traffic_level, cols)]

\* The outcome of a call: the exception raised ("none": a normal return), the rows
\* returned, and filtered_df when the call got as far as binding it.
analyze_traffic_routes(data, start_year, start_month, end_year, end_month, traffic_level, traffic_type, aggregate_by) ==
    IF RouteArgumentError(traffic_level, traffic_type, aggregate_by) # "none"
    THEN [raised |-> RouteArgumentError(traffic_level, traffic_type, aggregate_by),
          rows |-> <<>>]
    ELSE LET cols == col_mapping[traffic_type]
             keep(r) == InlinePeriodMask(r, start_year, start_month, end_year, end_month)
             filtered_df == Table(data.columns, SelectSeq(data.rows, keep))
         IN  \* groupby('Route')[[in_col, out_col, total_col]] raises KeyError for a
             \* column the table lacks, in the first iteration of the loop.
             IF filtered_df.rows # <<>> /\ ~({cols[1], cols[2], cols[3]} \subseteq data.columns)
             THEN [raised |-> "KeyError", rows |-> <<>>, filtered_df |-> filtered_df]
             ELSE [raised |-> "none",
                   rows |-> RouteRows(filtered_df, traffic_level, cols, aggregate_by),
                   filtered_df |-> filtered_df]

-----------------------------------------------------------------------------
(* analysis_functions.py: analyze_port_flow_efficiency                     *)

\* RestrictToPorts that keeps every row, whatever the list.
RestrictToPortsIgnored(t, specific_ports) == t

\* filtered_df[filtered_df['AustralianPort'].isin(specific_ports)] when
\* specific_ports is truthy (None and [] are both <<>> here).
RestrictToPorts(t, specific_ports) ==
    IF specific_ports = <<>> THEN t
    ELSE LET listed(r) == r["AustralianPort"] \in Range(specific_ports)
         IN  Table(t.columns, SelectSeq(t.rows, listed))

\* cargo_type.title()
Title(cargo_type) ==
    CASE cargo_type = "passengers" -> "Passengers"
      [] cargo_type = "freight" -> "Freight"
      [] cargo_type = "mail" -> "Mail"

\* agg_dict of analyze_port_flow_efficiency: the in and out columns of the known
\* cargo types, each summed.
PortFlowAggDict(cargo_types) ==
    LET known == Range(cargo_types) \cap DOMAIN get_cargo_columns
    IN  [c \in {get_cargo_columns[t].in : t \in known} \cup {get_cargo_columns[t].out : t \in known}
            |-> "sum"]

\* WithEfficiency with no epsilon in the denominator of the ratio.
WithEfficiencyNoEpsilon(r, cargo_type) ==
    LET in == r[get_cargo_columns[cargo_type].in]
        out == r[get_cargo_columns[cargo_type].out]
        ratio == RatNorm(<<in, out>>)
    IN  r @@ [balance_ratio |-> ratio,
              efficiency |-> IF ratio[2] = 0 THEN <<0 - Abs(ratio[1]), 0>>
                             ELSE RatNorm(<<ratio[2] - Abs(ratio[2] - ratio[1]), ratio[2]>>),
              total_volume |-> in + out]

\* One port row with the three columns the loop adds for cargo_type. epsilon is 1
\* passenger or 0.001 tonne, one unit of the column either way; a zero denominator
\* (Out = -epsilon) gives inf, -inf or nan, and 1 - abs(1 - ratio) of it -inf or nan.
WithEfficiency(r, cargo_type) ==
    LET in == r[get_cargo_columns[cargo_type].in]
        out == r[get_cargo_columns[cargo_type].out]
        d == out + 1
        ratio == RatNorm(IF d < 0 THEN <<0 - in, 0 - d>> ELSE <<in, d>>)
    IN  r @@ [balance_ratio |-> ratio,
              efficiency |-> IF ratio[2] = 0 THEN <<0 - Abs(ratio[1]), 0>>
                             ELSE RatNorm(<<ratio[2] - Abs(ratio[2] - ratio[1]), ratio[2]>>),
              total_volume |-> in + out]

\* port_data[f'{cargo_type}_total_volume'] >= min_volume_threshold, the threshold in
\* passengers or tonnes.
MeetsVolume(r, cargo_type, min_volume_threshold) ==
    IF cargo_type = "passengers" THEN r.total_volume >= min_volume_threshold
    ELSE r.total_volume >= min_volume_threshold * 1000

\* CargoFields without the test of top_ports.empty: ', '.join([]) and the mean of
\* no value.
CargoFieldsUnguarded(port_data, cargo_type, efficiency_level, min_volume_threshold, top_n) ==
    LET scored == [i \in DOMAIN port_data.rows |-> WithEfficiency(port_data.rows[i], cargo_type)]
        meets(r) == MeetsVolume(r, cargo_type, min_volume_threshold)
        filtered_ports == SelectSeq(scored, meets)
        top_ports == get_top_entities(filtered_ports, "efficiency", efficiency_level, top_n)
    IN  (Title(cargo_type) \o "_Ports") :>
            Join([i \in DOMAIN top_ports |-> top_ports[i]["AustralianPort"]])
        @@ (Title(cargo_type) \o "_Avg_Efficiency") :>
            (IF top_ports = <<>> THEN "nan" ELSE FormatFixed(RatMean(top_ports, "efficiency"), 3))

\* CargoFields with the volume filter applied to the top_n ports, after the ranking.
CargoFieldsRankThenFilter(port_data, cargo_type, efficiency_level, min_volume_threshold, top_n) ==
    LET scored == [i \in DOMAIN port_data.rows |-> WithEfficiency(port_data.rows[i], cargo_type)]
        meets(r) == MeetsVolume(r, cargo_type, min_volume_threshold)
        top_ports == SelectSeq(get_top_entities(scored, "efficiency", efficiency_level, top_n), meets)
    IN  IF top_ports # <<>>
        THEN (Title(cargo_type) \o "_Ports") :>
                 Join([i \in DOMAIN top_ports |-> top_ports[i]["AustralianPort"]])
             @@ (Title(cargo_type) \o "_Avg_Efficiency") :>
                 FormatFixed(RatMean(top_ports, "efficiency"), 3)
        ELSE (Title(cargo_type) \o "_Ports") :> "No data"
             @@ (Title(cargo_type) \o "_Avg_Efficiency") :> "No data"

\* The two fields one known cargo type adds to the row of a period.
CargoFields(port_data, cargo_type, efficiency_level, min_volume_threshold, top_n) ==
    LET scored == [i \in DOMAIN port_data.rows |-> WithEfficiency(port_data.rows[i], cargo_type)]
        meets(r) == MeetsVolume(r, cargo_type, min_volume_threshold)
        filtered_ports == SelectSeq(scored, meets)
        top_ports == get_top_entities(filtered_ports, "efficiency", efficiency_level, top_n)
    IN  IF top_ports # <<>>
        THEN (Title(cargo_type) \o "_Ports") :>
                 Join([i \in DOMAIN top_ports |-> top_ports[i]["AustralianPort"]])
             @@ (Title(cargo_type) \o "_Avg_Efficiency") :>
                 FormatFixed(RatMean(top_ports, "efficiency"), 3)
        ELSE (Title(cargo_type) \o "_Ports") :> "No data"
             @@ (Title(cargo_type) \o "_Avg_Efficiency") :> "No data"

\* AllCargoFields with the frame cut to filtered_ports for the cargo types that
\* follow: the volume filter of one cargo type reaches the next ones.
RECURSIVE AllCargoFieldsCumulative(_, _, _, _, _, _)
AllCargoFieldsCumulative(port_data, cargo_types, i, efficiency_level, min_volume_threshold, top_n) ==
    IF i > Len(cargo_types) THEN <<>>
    ELSE IF /\ cargo_types[i] \in DOMAIN get_cargo_columns
            /\ get_cargo_columns[cargo_types[i]].in \in port_data.columns
            /\ get_cargo_columns[cargo_types[i]].out \in port_data.columns
         THEN LET meets(r) == MeetsVolume(WithEfficiency(r, cargo_types[i]), cargo_types[i],
                                          min_volume_threshold)
                  kept == Table(port_data.columns, SelectSeq(port_data.rows, meets))
              IN  AllCargoFieldsCumulative(kept, cargo_types, i + 1, efficiency_level,
                                           min_volume_threshold, top_n)
                  @@ CargoFields(port_data, cargo_types[i], efficiency_level,
                                 min_volume_threshold, top_n)
         ELSE AllCargoFieldsCumulative(port_data, cargo_types, i + 1, efficiency_level,
                                       min_volume_threshold, top_n)

\* The fields of the known cargo types of the list, from position i on.
RECURSIVE AllCargoFields(_, _, _, _, _, _)
AllCargoFields(port_data, cargo_types, i, efficiency_level, min_volume_threshold, top_n) ==
    IF i > Len(cargo_types) THEN <<>>
    ELSE LET rest == AllCargoFields(port_data, cargo_types, i + 1, efficiency_level,
                                    min_volume_threshold, top_n)
         IN  IF /\ cargo_types[i] \in DOMAIN get_cargo_columns
                /\ get_cargo_columns[cargo_types[i]].in \in port_data.columns
                /\ get_cargo_columns[cargo_types[i]].out \in port_data.columns
             THEN rest @@ CargoFields(port_data, cargo_types[i], efficiency_level,
                                      min_volume_threshold, top_n)
             ELSE rest

analyze_port_flow_efficiency(data, start_year, start_month, end_year, end_month, cargo_types, aggregate_by, efficiency_level, specific_ports, min_volume_threshold, top_n) ==
    LET filtered_df == RestrictToPorts(
                           filter_data_by_period(data, start_year, start_month, end_year, end_month),
                           specific_ports)
        agg_dict == PortFlowAggDict(cargo_types)
    IN  IF AggregateError(filtered_df, agg_dict) # "none"
        THEN [raised |-> AggregateError(filtered_df, agg_dict), rows |-> <<>>,
              filtered_df |-> filtered_df]
        ELSE LET period_results == filter_and_aggregate_by_period(
                                       filtered_df, start_year, start_month, end_year, end_month,
                                       "AustralianPort", agg_dict, aggregate_by)
             IN  [raised |-> "none",
                  rows |-> [i \in DOMAIN period_results |->
                               format_results_summary(period_results[i].year, period_results[i].month)
                               @@ AllCargoFields(period_results[i].aggregated, cargo_types, 1,
                                                 efficiency_level, min_volume_threshold, top_n)],
                  filtered_df |-> filtered_df]

-----------------------------------------------------------------------------
(* analysis_functions.py: analyze_hub_utilization                          *)

HubAggDict ==
    [c \in {"Passengers_Total", "Freight_Total_(tonnes)", "Mail_Total_(tonnes)", "Route"} |->
        IF c = "Route" THEN "nunique" ELSE "sum"]

\* cargo_weights=None, the default of the signature: no mapping at all.
NoWeights == [w \in {} |-> 0]

\* WithUtilization with every weight 1.
WithUtilizationUnweighted(r, cargo_weights) ==
    LET equiv == r["Passengers_Total"] * 1000 + r["Freight_Total_(tonnes)"]
                     + r["Mail_Total_(tonnes)"]
    IN  [Port |-> r["AustralianPort"],
         Unique_Routes |-> r["Route"],
         routes |-> <<r["Route"], 1>>,
         utilizationScore |-> RatNorm(<<equiv, 1000 * r["Route"]>>)]

\* One hub row after the rename, with totalPassengerEquiv / Unique_Routes as an exact
\* rational (the tonnages are in thousandths); a zero route count gives inf or nan.
WithUtilization(r, cargo_weights) ==
    LET equiv == r["Passengers_Total"] * 1000
                     + r["Freight_Total_(tonnes)"] * cargo_weights.freight
                     + r["Mail_Total_(tonnes)"] * cargo_weights.mail
    IN  [Port |-> r["AustralianPort"],
         Unique_Routes |-> r["Route"],
         routes |-> <<r["Route"], 1>>,
         utilizationScore |-> RatNorm(<<equiv, 1000 * r["Route"]>>)]

NoHubData ==
    [Hub_Ports |-> "No data", Avg_Utilization_Score |-> "No data", Avg_Routes |-> "No data"]

\* The three fields of the row of one period.
HubFields(hub_data, utilization_level, min_routes_threshold, cargo_weights, top_n) ==
    IF hub_data.rows # <<>>
    THEN LET enough(r) == r["Route"] >= min_routes_threshold
             kept == SelectSeq(hub_data.rows, enough)
         IN  IF kept # <<>>
             THEN LET scored == [i \in DOMAIN kept |-> WithUtilization(kept[i], cargo_weights)]
                      top_hubs == get_top_entities(scored, "utilizationScore", utilization_level, top_n)
                  IN  [Hub_Ports |-> Join([i \in DOMAIN top_hubs |-> top_hubs[i].Port]),
                       Avg_Utilization_Score |-> FormatFixed(RatMean(top_hubs, "utilizationScore"), 1),
                       Avg_Routes |-> FormatFixed(RatMean(top_hubs, "routes"), 1)]
             ELSE NoHubData
    ELSE NoHubData

analyze_hub_utilization(data, start_year, start_month, end_year, end_month, aggregate_by, utilization_level, specific_ports, min_routes_threshold, cargo_weights, top_n) ==
    LET weights == IF cargo_weights = NoWeights THEN get_default_cargo_weights ELSE cargo_weights
        filtered_df == RestrictToPorts(
                           filter_data_by_period(data, start_year, start_month, end_year, end_month),
                           specific_ports)
    IN  IF AggregateError(filtered_df, HubAggDict) # "none"
        THEN [raised |-> AggregateError(filtered_df, HubAggDict), rows |-> <<>>,
              filtered_df |-> filtered_df]
        ELSE LET period_results == filter_and_aggregate_by_period(
                                       filtered_df, start_year, start_month, end_year, end_month,
                                       "AustralianPort", HubAggDict, aggregate_by)
             IN  [raised |-> "none",
                  rows |-> [i \in DOMAIN period_results |->
                               format_results_summary(period_results[i].year, period_results[i].month)
                               @@ HubFields(period_results[i].aggregated, utilization_level,
                                            min_routes_threshold, weights, top_n)],
                  filtered_df |-> filtered_df]

-----------------------------------------------------------------------------
(* analysis_functions.py: analyze_geographical_patterns                    *)

\* rows.sort_values(sort_col, ascending=False).head(top_n) for an integer column;
\* equal values keep their table order.
RECURSIVE SortDescHead(_, _, _, _)
SortDescHead(rows, sort_col, left, top_n) ==
    IF top_n <= 0 \/ left = {} THEN <<>>
    ELSE LET i == CHOOSE x \in left : \A y \in left \ {x} :
                      rows[x][sort_col] > rows[y][sort_col]
                          \/ (rows[x][sort_col] = rows[y][sort_col] /\ x < y)
         IN  <<rows[i]>> \o SortDescHead(rows, sort_col, left \ {i}, top_n - 1)

CountryAggDict ==
    [c \in {"Passengers_Total", "Freight_Total_(tonnes)", "Mail_Total_(tonnes)", "Route"} |->
        IF c = "Route" THEN "nunique" ELSE "sum"]

ConnectivityAggDict ==
    [c \in {"Country", "ForeignPort", "Passengers_Total"} |->
        IF c = "Passengers_Total" THEN "sum" ELSE "nunique"]

\* filtered_df.groupby(['Year', 'Country']).agg({'Passengers_Total': 'sum'})
\* .reset_index(): one row per (Year, Country) present, by Year, then by Country.
YearlyCountry(filtered_df) ==
    LET years == YearPeriods(filtered_df)
        rowsOf(y) == Aggregate(RowsOfYear(filtered_df, y), "Country",
                               [c \in {"Passengers_Total"} |-> "sum"]).rows
        RECURSIVE from(_)
        from(i) == IF i > Len(years) THEN <<>>
                   ELSE [j \in DOMAIN rowsOf(years[i]) |->
                            [Year |-> years[i],
                             Country |-> rowsOf(years[i])[j]["Country"],
                             Passengers_Total |-> rowsOf(years[i])[j]["Passengers_Total"]]]
                        \o from(i + 1)
    IN  from(1)

\* LatestGrowth without dropna(): a country with no earlier row keeps its row, with a
\* previous total of 0 and nan as its rate.
LatestGrowthKeepAll(yearly_country) ==
    LET latest_year == yearly_country[Len(yearly_country)].Year
        earlier(i) == {j \in 1..(i - 1) : yearly_country[j].Country = yearly_country[i].Country}
        prev(i) == IF earlier(i) = {} THEN 0
                   ELSE yearly_country[CHOOSE j \in earlier(i) : \A k \in earlier(i) : k <= j].Passengers_Total
        idx == SortInts({i \in DOMAIN yearly_country : yearly_country[i].Year = latest_year})
    IN  [n \in DOMAIN idx |->
            LET i == idx[n]
                cur == yearly_country[i].Passengers_Total
            IN  [Year |-> yearly_country[i].Year,
                 Country |-> yearly_country[i].Country,
                 Passengers_Total |-> cur,
                 prev_year_passengers |-> prev(i),
                 growth_rate |-> IF prev(i) = 0 THEN <<0, 0>>
                                 ELSE RatNorm(<<(cur - prev(i)) * 100, prev(i)>>)]]

\* The rows of the latest year with prev_year_passengers (groupby('Country').shift(1):
\* the country's row before it in the table) and growth_rate, after dropna(): a row
\* with no earlier row, or with 0/0 as its rate, is dropped; x/0 with x > 0 is inf.
LatestGrowth(yearly_country) ==
    LET latest_year == yearly_country[Len(yearly_country)].Year
        earlier(i) == {j \in 1..(i - 1) : yearly_country[j].Country = yearly_country[i].Country}
        prev(i) == yearly_country[CHOOSE j \in earlier(i) : \A k \in earlier(i) : k <= j].Passengers_Total
        kept(i) == /\ yearly_country[i].Year = latest_year
                   /\ earlier(i) # {}
                   /\ ~(prev(i) = 0 /\ yearly_country[i].Passengers_Total = 0)
        idx == SortInts({i \in DOMAIN yearly_country : kept(i)})
    IN  [n \in DOMAIN idx |->
            LET i == idx[n]
                cur == yearly_country[i].Passengers_Total
            IN  [Year |-> yearly_country[i].Year,
                 Country |-> yearly_country[i].Country,
                 Passengers_Total |-> cur,
                 prev_year_passengers |-> prev(i),
                 growth_rate |-> IF prev(i) = 0 THEN <<IF cur > 0 THEN 1 ELSE 0 - 1, 0>>
                                 ELSE RatNorm(<<(cur - prev(i)) * 100, prev(i)>>)]]

\* a > b for growth rates: rationals, or inf (<<1, 0>>) and -inf (<<-1, 0>>).
RateGreater(a, b) ==
    IF a[2] = 0 /\ b[2] = 0 THEN a[1] > b[1]
    ELSE IF a[2] = 0 THEN a[1] > 0
    ELSE IF b[2] = 0 THEN b[1] < 0
    ELSE RatLess(b, a)

\* latest_growth.sort_values('growth_rate', ascending=False).head(top_n)
RECURSIVE SortGrowthHead(_, _, _)
SortGrowthHead(rows, left, top_n) ==
    IF top_n <= 0 \/ left = {} THEN <<>>
    ELSE LET i == CHOOSE x \in left : \A y \in left \ {x} :
                      RateGreater(rows[x].growth_rate, rows[y].growth_rate)
                          \/ (~RateGreater(rows[y].growth_rate, rows[x].growth_rate) /\ x < y)
         IN  <<rows[i]>> \o SortGrowthHead(rows, left \ {i}, top_n - 1)

\* Every pattern_type but the three known ones returns the empty pd.DataFrame().
analyze_geographical_patterns(data, start_year, start_month, end_year, end_month, pattern_type, top_n) ==
    LET filtered_df == filter_data_by_period(data, start_year, start_month, end_year, end_month)
        needed == CASE pattern_type = "country_performance" -> DOMAIN CountryAggDict \cup {"Country"}
                    [] pattern_type = "port_connectivity" -> DOMAIN ConnectivityAggDict \cup {"AustralianPort"}
                    [] pattern_type = "regional_growth" -> {"Year", "Country", "Passengers_Total"}
                    [] OTHER -> {}
    IN  IF ~(needed \subseteq filtered_df.columns)
        THEN [raised |-> "KeyError", rows |-> <<>>, filtered_df |-> filtered_df]
        ELSE [raised |-> "none",
              rows |-> CASE pattern_type = "country_performance" ->
                            LET country_totals == Aggregate(filtered_df, "Country", CountryAggDict).rows
                            IN  SortDescHead(country_totals, "Passengers_Total",
                                             DOMAIN country_totals, top_n)
                         [] pattern_type = "port_connectivity" ->
                            LET port_connectivity == Aggregate(filtered_df, "AustralianPort",
                                                               ConnectivityAggDict).rows
                            IN  SortDescHead(port_connectivity, "Country",
                                             DOMAIN port_connectivity, top_n)
                         [] pattern_type = "regional_growth" ->
                            LET yearly_country == YearlyCountry(filtered_df)
                            IN  IF yearly_country = <<>> THEN <<>>
                                ELSE LET latest_growth == LatestGrowth(yearly_country)
                                     IN  SortGrowthHead(latest_growth, DOMAIN latest_growth, top_n)
                         [] OTHER -> <<>>,
              filtered_df |-> filtered_df]

-----------------------------------------------------------------------------
(* The state machine: a table is loaded, then a client calls the library   *)
(* on it, one synchronous call after the other. df is the caller's table,  *)
(* call the call that has just returned (NoCall between calls) and result  *)
(* its outcome.                                                            *)

NoCall == [fn |-> "none"]

\* A period argument: <<start_year, start_month, end_year, end_month>>.
PeriodsOf(years, months) == years \X months \X years \X months

\* The tables of at most n rows drawn from pool, rows in any order, repeats allowed.
TablesOf(pool, n) == UNION {[1..k -> pool] : k \in 0..n}

InitWith(tables) ==
    /\ df \in tables
    /\ call = NoCall
    /\ result = [raised |-> "none"]

\* The caller is done with the outcome of its last call and moves on.
Continue ==
    /\ call.fn # "none"
    /\ call' = NoCall
    /\ result' = [raised |-> "none"]
    /\ UNCHANGED df

FilterDataByPeriod(periods) ==
    \E p \in periods :
        /\ call.fn = "none"
        /\ call' = [fn |-> "filter_data_by_period", period |-> p]
        /\ result' = [raised |-> "none",
                      value |-> filter_data_by_period(df, p[1], p[2], p[3], p[4])]
        /\ UNCHANGED df

AnalyzeTrafficRoutes(periods, levels, types, granularities) ==
    \E p \in periods, traffic_level \in levels, traffic_type \in types,
       aggregate_by \in granularities :
        /\ call.fn = "none"
        /\ call' = [fn |-> "analyze_traffic_routes", period |-> p,
                    traffic_level |-> traffic_level, traffic_type |-> traffic_type,
                    aggregate_by |-> aggregate_by]
        /\ result' = analyze_traffic_routes(df, p[1], p[2], p[3], p[4],
                                            traffic_level, traffic_type, aggregate_by)
        /\ UNCHANGED df

FilterAndAggregateByPeriod(periods, group_cols, agg_dicts, granularities) ==
    \E p \in periods, group_col \in group_cols, agg_dict \in agg_dicts,
       aggregate_by \in granularities :
        /\ call.fn = "none"
        /\ call' = [fn |-> "filter_and_aggregate_by_period", period |-> p,
                    group_col |-> group_col, agg_dict |-> agg_dict,
                    aggregate_by |-> aggregate_by]
        /\ result' =
              LET filtered_df == filter_data_by_period(df, p[1], p[2], p[3], p[4])
              IN  IF AggregateError(filtered_df, agg_dict) # "none"
                  THEN [raised |-> AggregateError(filtered_df, agg_dict), rows |-> <<>>,
                        filtered_df |-> filtered_df]
                  ELSE [raised |-> "none",
                        rows |-> filter_and_aggregate_by_period(df, p[1], p[2], p[3], p[4],
                                                                group_col, agg_dict, aggregate_by),
                        filtered_df |-> filtered_df]
        /\ UNCHANGED df

AnalyzePortFlowEfficiency(periods, cargo_lists, granularities, levels, port_lists, thresholds, top_ns) ==
    \E p \in periods, cargo_types \in cargo_lists, aggregate_by \in granularities,
       efficiency_level \in levels, specific_ports \in port_lists,
       min_volume_threshold \in thresholds, top_n \in top_ns :
        /\ call.fn = "none"
        /\ call' = [fn |-> "analyze_port_flow_efficiency", period |-> p,
                    cargo_types |-> cargo_types, aggregate_by |-> aggregate_by,
                    level |-> efficiency_level, specific_ports |-> specific_ports,
                    threshold |-> min_volume_threshold, top_n |-> top_n]
        /\ result' = analyze_port_flow_efficiency(df, p[1], p[2], p[3], p[4], cargo_types,
                         aggregate_by, efficiency_level, specific_ports,
                         min_volume_threshold, top_n)
        /\ UNCHANGED df

AnalyzeHubUtilization(periods, granularities, levels, port_lists, thresholds, weights, top_ns) ==
    \E p \in periods, aggregate_by \in granularities, utilization_level \in levels,
       specific_ports \in port_lists, min_routes_threshold \in thresholds,
       cargo_weights \in weights, top_n \in top_ns :
        /\ call.fn = "none"
        /\ call' = [fn |-> "analyze_hub_utilization", period |-> p,
                    aggregate_by |-> aggregate_by, level |-> utilization_level,
                    specific_ports |-> specific_ports, threshold |-> min_routes_threshold,
                    cargo_weights |-> cargo_weights, top_n |-> top_n]
        /\ result' = analyze_hub_utilization(df, p[1], p[2], p[3], p[4], aggregate_by,
                         utilization_level, specific_ports, min_routes_threshold,
                         cargo_weights, top_n)
        /\ UNCHANGED df

AnalyzeGeographicalPatterns(periods, pattern_types, top_ns) ==
    \E p \in periods, pattern_type \in pattern_types, top_n \in top_ns :
        /\ call.fn = "none"
        /\ call' = [fn |-> "analyze_geographical_patterns", period |-> p,
                    pattern_type |-> pattern_type, top_n |-> top_n]
        /\ result' = analyze_geographical_patterns(df, p[1], p[2], p[3], p[4],
                                                   pattern_type, top_n)
        /\ UNCHANGED df

-----------------------------------------------------------------------------
(* The period filter on its own: tables that differ in Year and Month.     *)

MaxFilterRows == 3

FilterYears == 1984..1986
FilterMonths == {1, 2}

\* <<pIn, pOut, fIn, fOut, mIn, mOut>> of the rows.
ProfileA == <<100, 80, 1500, 700, 0, 200>>
ProfileB == <<40, 40, 300, 300, 0, 0>>

FilterPool ==
    {MakeRecord(y, m, "Sydney", "London", ProfileA) : y \in FilterYears, m \in FilterMonths}

FilterPeriods == PeriodsOf(FilterYears, FilterMonths)

InitFilter == InitWith({Table(AllCols, rows) : rows \in TablesOf(FilterPool, MaxFilterRows)})

NextFilter ==
    \/ FilterDataByPeriod(FilterPeriods)
    \/ AnalyzeTrafficRoutes(FilterPeriods, {"Most"}, {"Passengers"}, {"Month", "Year"})
    \/ Continue

SpecFilter == InitFilter /\ [][NextFilter]_vars

\* (Year, Month) order: a <= b lexicographically.
LexLE(a, b) == a[1] < b[1] \/ (a[1] = b[1] /\ a[2] <= b[2])

\* The rows of the caller's table that lie in the inclusive range of the call.
RowsInRange ==
    LET p == call.period
        inside(r) == /\ LexLE(<<p[1], p[2]>>, <<r["Year"], r["Month"]>>)
                     /\ LexLE(<<r["Year"], r["Month"]>>, <<p[3], p[4]>>)
    IN  SelectSeq(df.rows, inside)

\* What the last call kept of the table: the value filter_data_by_period returned,
\* or the filtered_df analyze_traffic_routes worked on.
KeptRows ==
    IF call.fn = "filter_data_by_period" THEN result.value.rows ELSE result.filtered_df.rows

FilterCall == call.fn \in {"filter_data_by_period", "analyze_traffic_routes"}

\* C1: with start_year < end_year, filter_data_by_period and the inline filter of
\* analyze_traffic_routes keep exactly the rows whose (Year, Month) lies in the
\* inclusive lexicographic range (start_year, start_month)..(end_year, end_month).
C1_FilterIsInclusiveRange ==
    (FilterCall /\ call.period[1] < call.period[3]) => KeptRows = RowsInRange

\* A call over two years that drops a row below the start month and one above the
\* end month and keeps a row between them.
C1_Witness ==
    /\ FilterCall /\ call.period[1] < call.period[3]
    /\ Len(df.rows) = 3 /\ Len(KeptRows) = 1
    /\ \E i \in DOMAIN df.rows :
           df.rows[i]["Year"] = call.period[1] /\ df.rows[i]["Month"] < call.period[2]
    /\ \E i \in DOMAIN df.rows :
           df.rows[i]["Year"] = call.period[3] /\ df.rows[i]["Month"] > call.period[4]

\* The rows of the caller's table whose Year is the start year of the call.
RowsOfStartYear ==
    LET sameYear(r) == r["Year"] = call.period[1]
    IN  SelectSeq(df.rows, sameYear)

SameYearCall ==
    /\ call.fn = "filter_data_by_period"
    /\ call.period[1] = call.period[3]
    /\ call.period[2] <= call.period[4]

\* C2: with start_year = end_year and start_month <= end_month,
\* filter_data_by_period keeps every row of that year, whatever its month, and no
\* row of another year.
C2_SameYearKeepsWholeYear == SameYearCall => result.value.rows = RowsOfStartYear

\* A same-year call that keeps a row whose month is outside [start_month, end_month]
\* and drops a row of another year.
C2_Witness ==
    /\ SameYearCall
    /\ \E i \in DOMAIN result.value.rows :
           \/ result.value.rows[i]["Month"] < call.period[2]
           \/ result.value.rows[i]["Month"] > call.period[4]
    /\ Len(result.value.rows) < Len(df.rows)

-----------------------------------------------------------------------------
(* Route extremes and the period aggregator: tables of routes over four    *)
(* months of two years, with or without one metric column.                 *)

MaxRows == 2

RECURSIVE SeqOfSet(_)
SeqOfSet(S) ==
    IF S = {} THEN <<>> ELSE LET x == CHOOSE y \in S : TRUE IN <<x>> \o SeqOfSet(S \ {x})

\* The tables of at most n rows drawn from pool, one table per multiset of rows: the
\* analyses group and sort the rows they read, so the order of the rows of the
\* caller's table does not reach their results.
BagTablesOf(pool, n) ==
    LET ps == SeqOfSet(pool)
    IN  UNION {{[i \in 1..k |-> ps[s[i]]] :
                   s \in {t \in [1..k -> 1..Len(ps)] : \A i \in 1..(k - 1) : t[i] <= t[i + 1]}} :
               k \in 0..n}

RouteYears == {1985, 1986}
RouteMonths == {1, 2}

\* <<AustralianPort, ForeignPort>>; the third has no Australian port, so no Route.
PortPairs == {<<"Sydney", "London">>, <<"Melbourne", "Tokyo">>, <<NaN, "London">>}

RoutePool ==
    {MakeRecord(y, m, pp[1], pp[2], pr) :
        y \in RouteYears, m \in RouteMonths, pp \in PortPairs, pr \in {ProfileA, ProfileB}}

RoutePeriods == PeriodsOf(RouteYears, RouteMonths)

\* The columns a loaded table may lack.
MissingColumns == {{}, {"Passengers_Total"}}

InitRoutes ==
    InitWith({DropColumns(Table(AllCols, rows), drop) :
                 rows \in BagTablesOf(RoutePool, MaxRows), drop \in MissingColumns})

NextRoutes ==
    \/ AnalyzeTrafficRoutes(RoutePeriods, {"Most", "Least"}, {"Passengers", "Freight", "Mail"},
                            {"Month", "Year"})
    \/ FilterAndAggregateByPeriod(RoutePeriods, {"Route"},
                                  {[c \in {"Passengers_In"} |-> "sum"]}, {"Month", "Year"})
    \/ Continue

SpecRoutes == InitRoutes /\ [][NextRoutes]_vars

\* The call returned normally from one of the two functions that bucket by period.
BucketedReturn ==
    /\ call.fn \in {"analyze_traffic_routes", "filter_and_aggregate_by_period"}
    /\ result.raised = "none"

\* The (Year, Month) of output row i.
RowMonthKey(i) ==
    IF call.fn = "filter_and_aggregate_by_period"
    THEN <<result.rows[i].year, result.rows[i].month>>
    ELSE <<result.rows[i]["Year"], result.rows[i]["Month"]>>

\* The distinct (Year, Month) pairs present in the filtered record set.
PresentMonths ==
    {<<result.filtered_df.rows[i]["Year"], result.filtered_df.rows[i]["Month"]>> :
        i \in DOMAIN result.filtered_df.rows}

\* C3: under Month granularity analyze_traffic_routes and
\* filter_and_aggregate_by_period emit exactly one row per distinct (Year, Month)
\* present in the filtered record set, in strictly ascending (Year, Month) order, and
\* no row for a month without a record.
C3_OneRowPerPresentMonth ==
    (BucketedReturn /\ call.aggregate_by = "Month") =>
        /\ Len(result.rows) = Cardinality(PresentMonths)
        /\ {RowMonthKey(i) : i \in DOMAIN result.rows} = PresentMonths
        /\ \A i, j \in DOMAIN result.rows : i < j => PairLess(RowMonthKey(i), RowMonthKey(j))

\* A Month call whose range covers all four months, on a table with two records of
\* one month and none of the other three: one row.
C3_Witness ==
    /\ BucketedReturn /\ call.aggregate_by = "Month"
    /\ call.period = <<1985, 1, 1986, 2>>
    /\ Len(result.filtered_df.rows) = 2
    /\ Len(result.rows) = 1

\* A Month call that emits two rows, for two months.
C3_WitnessTwoRows ==
    /\ BucketedReturn /\ call.aggregate_by = "Month"
    /\ Len(result.rows) = 2

RoutesReturn == call.fn = "analyze_traffic_routes" /\ result.raised = "none"

\* The filtered records of the bucket of output row i that have a Route.
BucketRecords(i) ==
    LET inBucket(r) ==
            /\ r["Year"] = result.rows[i]["Year"]
            /\ call.aggregate_by = "Month" => r["Month"] = result.rows[i]["Month"]
            /\ r["Route"] # NaN
    IN  SelectSeq(result.filtered_df.rows, inBucket)

\* The summed value of column col over the records of a route.
RouteTotal(records, route, col) ==
    LET ofRoute(r) == r["Route"] = route
    IN  SumCol(SelectSeq(records, ofRoute), col)

\* The routes of the bucket of row i whose total of col is the extreme of the level.
ExtremeRoutes(i, col) ==
    LET records == BucketRecords(i)
        routes == {records[k]["Route"] : k \in DOMAIN records}
    IN  {rt \in routes : \A other \in routes :
            IF call.traffic_level = "Most"
            THEN RouteTotal(records, other, col) <= RouteTotal(records, rt, col)
            ELSE RouteTotal(records, rt, col) <= RouteTotal(records, other, col)}

\* str is the names of S joined in strictly ascending order.
IsAscendingJoin(str, S) ==
    \E names \in [1..Cardinality(S) -> S] :
        /\ \A a, b \in DOMAIN names : a < b => StrLess(names[a], names[b])
        /\ str = Join(names)

\* C5: in every bucket of analyze_traffic_routes that has routes, and for each of the
\* In, Out and Total columns, the names reported are exactly the routes whose summed
\* value is the maximum (Most) or minimum (Least) of the bucket, every tied route
\* included, joined in ascending order of name.
C5_AllTiedRoutesAscending ==
    RoutesReturn =>
        \A i \in DOMAIN result.rows : \A d \in 1..3 :
            BucketRecords(i) # <<>> =>
                IsAscendingJoin(result.rows[i][<<"In_Route", "Out_Route", "Total_Route">>[d]],
                                ExtremeRoutes(i, col_mapping[call.traffic_type][d]))

\* One bucket in which two routes tie on the extreme freight value.
C5_Witness ==
    /\ RoutesReturn /\ call.traffic_level = "Most" /\ call.traffic_type = "Freight"
    /\ Len(result.rows) = 1
    /\ result.rows[1]["In_Route"] = "Melbourne-Tokyo, Sydney-London"
    /\ result.rows[1]["Total_Route"] = "Melbourne-Tokyo, Sydney-London"

\* The two records of the end-to-end example, in either order, and the call made on
\* them.
C6_Scenario ==
    /\ df.columns = AllCols
    /\ Len(df.rows) = 2
    /\ Range(df.rows) = {MakeRecord(1985, 1, "Sydney", "London", ProfileA),
                          MakeRecord(1985, 1, "Melbourne", "Tokyo", ProfileB)}
    /\ call.fn = "analyze_traffic_routes"
    /\ call.period = <<1985, 1, 1985, 1>>
    /\ call.traffic_level = "Most" /\ call.traffic_type = "Passengers"
    /\ call.aggregate_by = "Month"

\* C6: on Sydney-London (100/80/180) and Melbourne-Tokyo (40/40/80) of January 1985,
\* analyze_traffic_routes(Most, Passengers, Month) over January 1985 returns exactly
\* one row, with Year 1985, Month 1, Total_Route "Sydney-London", Total_Value "180".
C6_EndToEndExample ==
    C6_Scenario =>
        /\ result.raised = "none"
        /\ Len(result.rows) = 1
        /\ result.rows[1]["Year"] = 1985 /\ result.rows[1]["Month"] = 1
        /\ result.rows[1]["Total_Route"] = "Sydney-London"
        /\ result.rows[1]["Total_Value"] = "180"

C6_Witness == C6_Scenario /\ Len(result.rows) = 1

\* C9: in analyze_traffic_routes an empty range, an empty bucket or a missing metric
\* column is never an error, and a row whose grouped table is empty or whose column
\* is absent reads "No data" in both fields of the direction.
C9_EmptyOrMissingIsNoError ==
    call.fn = "analyze_traffic_routes" =>
        /\ result.raised = "none"
        /\ \A i \in DOMAIN result.rows : \A d \in 1..3 :
               (BucketRecords(i) = <<>> \/ col_mapping[call.traffic_type][d] \notin df.columns) =>
                   /\ result.rows[i][<<"In_Route", "Out_Route", "Total_Route">>[d]] = "No data"
                   /\ result.rows[i][<<"In_Value", "Out_Value", "Total_Value">>[d]] = "No data"

-----------------------------------------------------------------------------
(* The argument checks of analyze_traffic_routes.                          *)

ArgPeriods == {<<1984, 1, 1986, 2>>, <<1985, 2, 1985, 1>>}

NextRouteArgs ==
    \/ AnalyzeTrafficRoutes(ArgPeriods, {"Most", "Least", "Average"},
                            {"Passengers", "Freight", "Mail", "Cargo"},
                            {"Month", "Year", "Week"})
    \/ Continue

SpecRouteArgs == InitFilter /\ [][NextRouteArgs]_vars

InvalidRouteArgument ==
    \/ call.traffic_type \notin {"Passengers", "Freight", "Mail"}
    \/ call.traffic_level \notin {"Most", "Least"}
    \/ call.aggregate_by \notin {"Month", "Year"}

\* C7: analyze_traffic_routes raises an error, before it filters or reads a record
\* (filtered_df is never bound) and without a result row, whenever traffic_type,
\* traffic_level or aggregate_by is outside its closed set.
C7_InvalidArgumentRaisesFirst ==
    (call.fn = "analyze_traffic_routes" /\ InvalidRouteArgument) =>
        /\ result.raised = "ValueError"
        /\ result.rows = <<>>
        /\ "filtered_df" \notin DOMAIN result

\* A call whose only invalid argument is the last one checked, on records in range.
C7_Witness ==
    /\ call.fn = "analyze_traffic_routes"
    /\ call.traffic_type = "Passengers" /\ call.traffic_level = "Most"
    /\ call.aggregate_by = "Week"
    /\ Len(df.rows) = 3
    /\ result.raised = "ValueError"

-----------------------------------------------------------------------------
(* Granularity: the analyses that bucket by Month or Year.                 *)

InitPorts == InitWith({Table(AllCols, rows) : rows \in BagTablesOf(RoutePool, MaxRows)})

\* top_n=10 and the other defaults of the signatures.
PortLists == {<<>>, <<"Sydney">>}

NextGranularity ==
    \/ AnalyzeTrafficRoutes(RoutePeriods, {"Most"}, {"Passengers"}, {"Month", "Year"})
    \/ FilterAndAggregateByPeriod(RoutePeriods, {"AustralianPort"},
                                  {[c \in {"Passengers_In"} |-> "sum"]}, {"Month", "Year"})
    \/ AnalyzePortFlowEfficiency(RoutePeriods, {<<"passengers">>}, {"Month", "Year"}, {"Most"},
                                 PortLists, {0}, {10})
    \/ AnalyzeHubUtilization(RoutePeriods, {"Month", "Year"}, {"Most"}, PortLists, {1},
                             {get_default_cargo_weights}, {10})
    \/ Continue

SpecGranularity == InitPorts /\ [][NextGranularity]_vars

\* A normal return of a call that buckets by period.
PeriodReturn ==
    /\ call.fn \in {"analyze_traffic_routes", "filter_and_aggregate_by_period",
                    "analyze_port_flow_efficiency", "analyze_hub_utilization"}
    /\ result.raised = "none"

\* The keys output row i carries: of a result row, or of a (year, month, aggregated)
\* tuple, whose month slot is None when it carries no month.
RowHasMonth(i) ==
    IF call.fn = "filter_and_aggregate_by_period" THEN result.rows[i].month # None
    ELSE "Month" \in DOMAIN result.rows[i]

RowYear(i) ==
    IF call.fn = "filter_and_aggregate_by_period" THEN result.rows[i].year
    ELSE result.rows[i]["Year"]

RowHasYear(i) ==
    call.fn = "filter_and_aggregate_by_period" \/ "Year" \in DOMAIN result.rows[i]

\* The distinct years present in the filtered record set.
PresentYears ==
    {result.filtered_df.rows[i]["Year"] : i \in DOMAIN result.filtered_df.rows}

\* C4: under Year granularity every analysis emits exactly one row per distinct Year
\* present in the filtered record set, in strictly ascending Year order, each with a
\* Year and no Month; under Month granularity each row carries Year and Month.
C4_YearRowsAndRowFields ==
    PeriodReturn =>
        /\ call.aggregate_by = "Year" =>
               /\ Len(result.rows) = Cardinality(PresentYears)
               /\ \A i \in DOMAIN result.rows :
                      RowHasYear(i) /\ ~RowHasMonth(i) /\ RowYear(i) \in PresentYears
               /\ \A i, j \in DOMAIN result.rows : i < j => RowYear(i) < RowYear(j)
        /\ call.aggregate_by = "Month" =>
               \A i \in DOMAIN result.rows : RowHasYear(i) /\ RowHasMonth(i)

\* A Year call of an analysis on two records of two months of one year: one row.
C4_Witness ==
    /\ PeriodReturn /\ call.aggregate_by = "Year"
    /\ call.fn = "analyze_hub_utilization"
    /\ Cardinality(PresentMonths) = 2
    /\ Len(result.rows) = 1
    /\ DOMAIN result.rows[1] = {"Year", "Hub_Ports", "Avg_Utilization_Score", "Avg_Routes"}

-----------------------------------------------------------------------------
(* The arguments of the other three analyses.                              *)

NextPortArgs ==
    \/ AnalyzePortFlowEfficiency(ArgPeriods, {<<"passengers">>}, {"Month", "Year", "Week"},
                                 {"Most", "Least", "Average"}, {<<>>}, {0}, {10})
    \/ AnalyzeHubUtilization(ArgPeriods, {"Month", "Year", "Week"}, {"Most", "Least", "Average"},
                             {<<>>}, {1}, {get_default_cargo_weights}, {10})
    \/ AnalyzeGeographicalPatterns(ArgPeriods,
                                   {"country_performance", "port_connectivity",
                                    "regional_growth", "continent"}, {10})
    \/ Continue

SpecPortArgs == InitFilter /\ [][NextPortArgs]_vars

InvalidPortArgument ==
    \/ /\ call.fn \in {"analyze_port_flow_efficiency", "analyze_hub_utilization"}
       /\ \/ call.level \notin {"Most", "Least"}
          \/ call.aggregate_by \notin {"Month", "Year"}
    \/ /\ call.fn = "analyze_geographical_patterns"
       /\ call.pattern_type \notin {"country_performance", "port_connectivity", "regional_growth"}

\* C8: analyze_port_flow_efficiency, analyze_hub_utilization and
\* analyze_geographical_patterns fail, before they touch a record and without a
\* result, when their level, granularity or pattern type is outside its closed set.
C8_InvalidArgumentFails ==
    InvalidPortArgument =>
        /\ result.raised # "none"
        /\ "filtered_df" \notin DOMAIN result

-----------------------------------------------------------------------------
(* Thresholds: ports with one or two routes over January of two years.     *)

MaxPortRows == 3

PortYears == {1985, 1986}

PortPool ==
    {MakeRecord(y, 1, pp[1], pp[2], pr) :
        y \in PortYears,
        pp \in {<<"Sydney", "London">>, <<"Sydney", "Tokyo">>, <<"Melbourne", "Tokyo">>},
        pr \in {ProfileA, ProfileB}}

PortPeriods == PeriodsOf(PortYears, {1})

InitThreshold == InitWith({Table(AllCols, rows) : rows \in BagTablesOf(PortPool, MaxPortRows)})

NextThreshold ==
    \/ AnalyzePortFlowEfficiency(PortPeriods, {<<"passengers">>, <<"freight", "passengers">>},
                                 {"Month", "Year"}, {"Most", "Least"}, {<<>>}, {0, 100}, {1, 2})
    \/ AnalyzeHubUtilization(PortPeriods, {"Month", "Year"}, {"Most", "Least"}, {<<>>}, {1, 2},
                             {get_default_cargo_weights}, {1, 2})
    \/ Continue

SpecThreshold == InitThreshold /\ [][NextThreshold]_vars

PortsReturn ==
    /\ call.fn \in {"analyze_port_flow_efficiency", "analyze_hub_utilization"}
    /\ result.raised = "none"

\* The filtered records of the bucket of output row i.
PortBucket(i) ==
    LET inBucket(r) ==
            /\ r["Year"] = result.rows[i]["Year"]
            /\ call.aggregate_by = "Month" => r["Month"] = result.rows[i]["Month"]
    IN  SelectSeq(result.filtered_df.rows, inBucket)

\* In + Out of a cargo type over the records of a port, and the threshold of the
\* call in the unit of the column.
PortVolume(records, port, cargo_type) ==
    LET ofPort(r) == r["AustralianPort"] = port
    IN  SumCol(SelectSeq(records, ofPort), get_cargo_columns[cargo_type].in)
            + SumCol(SelectSeq(records, ofPort), get_cargo_columns[cargo_type].out)

VolumeThreshold(cargo_type) ==
    IF cargo_type = "passengers" THEN call.threshold ELSE call.threshold * 1000

\* The number of distinct routes of a port in the records.
PortRoutes(records, port) ==
    Cardinality({records[k]["Route"] :
                    k \in {n \in DOMAIN records : records[n]["AustralianPort"] = port}} \ {NaN})

PortsOf(records) == {records[k]["AustralianPort"] : k \in DOMAIN records}

FieldIs(row, key, value) == key \in DOMAIN row /\ row[key] = value

\* Row i reads "No data" in every metric field of the cargo type / of the hubs.
AllNoData(i, keys) == \A k \in keys : FieldIs(result.rows[i], k, "No data")

\* The outcome of the same call on a table that holds the records of bucket i only.
SameCallOnBucket(i) ==
    LET t == Table(df.columns, PortBucket(i))
        p == call.period
    IN  IF call.fn = "analyze_port_flow_efficiency"
        THEN analyze_port_flow_efficiency(t, p[1], p[2], p[3], p[4], call.cargo_types,
                 call.aggregate_by, call.level, call.specific_ports, call.threshold, call.top_n)
        ELSE analyze_hub_utilization(t, p[1], p[2], p[3], p[4], call.aggregate_by, call.level,
                 call.specific_ports, call.threshold, call.cargo_weights, call.top_n)

\* Every port of the bucket of row i is below the volume threshold for the cargo
\* type, or below the route-count threshold.
AllBelowVolume(i, cargo_type) ==
    \A port \in PortsOf(PortBucket(i)) :
        PortVolume(PortBucket(i), port, cargo_type) < VolumeThreshold(cargo_type)

AllBelowRoutes(i) ==
    \A port \in PortsOf(PortBucket(i)) : PortRoutes(PortBucket(i), port) < call.threshold

PresentBuckets ==
    IF call.aggregate_by = "Month" THEN PresentMonths ELSE PresentYears

\* C10: in analyze_port_flow_efficiency and analyze_hub_utilization a bucket whose
\* entities are all below the volume or route-count threshold still yields its row,
\* every metric field of it "No data"; there is one row per bucket whatever the
\* threshold excludes, and each row is the row its bucket yields on its own.
C10_ExcludedBucketKeepsItsRow ==
    PortsReturn =>
        /\ Len(result.rows) = Cardinality(PresentBuckets)
        /\ \A i \in DOMAIN result.rows :
               /\ call.fn = "analyze_port_flow_efficiency" =>
                      \A ct \in Range(call.cargo_types) :
                          AllBelowVolume(i, ct) =>
                              AllNoData(i, {Title(ct) \o "_Ports", Title(ct) \o "_Avg_Efficiency"})
               /\ (call.fn = "analyze_hub_utilization" /\ AllBelowRoutes(i)) =>
                      AllNoData(i, {"Hub_Ports", "Avg_Utilization_Score", "Avg_Routes"})
               /\ result.rows[i] = SameCallOnBucket(i).rows[1]

\* Two buckets, the ports of the first all below the passenger threshold and a port
\* of the second above it: a "No data" row followed by a row with a port name.
C10_Witness ==
    /\ PortsReturn /\ call.fn = "analyze_port_flow_efficiency"
    /\ call.threshold = 100
    /\ Len(result.rows) = 2
    /\ PortBucket(1) # <<>>
    /\ AllNoData(1, {"Passengers_Ports", "Passengers_Avg_Efficiency"})
    /\ FieldIs(result.rows[2], "Passengers_Ports", "Sydney")

\* The same for hubs: a bucket whose only hub has one route, under a threshold of two
\* routes, before a bucket whose hub has two.
C10_WitnessHub ==
    /\ PortsReturn /\ call.fn = "analyze_hub_utilization"
    /\ call.threshold = 2
    /\ Len(result.rows) = 2
    /\ PortBucket(1) # <<>>
    /\ AllNoData(1, {"Hub_Ports", "Avg_Utilization_Score", "Avg_Routes"})
    /\ FieldIs(result.rows[2], "Hub_Ports", "Sydney")

-----------------------------------------------------------------------------
(* Balance ratio and efficiency: ports whose inbound and outbound flows    *)
(* are equal, or one epsilon apart.                                        *)

MaxBalanceRows == 2

\* In = Out for passengers (50, 50) and freight; In = Out + epsilon for both.
ProfileBalanced == <<50, 50, 500, 500, 0, 0>>
ProfileOneOver == <<51, 50, 501, 500, 1, 0>>

BalancePool ==
    {MakeRecord(1985, m, ap, "London", pr) :
        m \in {1, 2}, ap \in {"Sydney", "Melbourne"},
        pr \in {ProfileBalanced, ProfileOneOver, ProfileA}}

BalancePeriods == {<<1985, 1, 1985, 2>>}

InitBalance == InitWith({Table(AllCols, rows) : rows \in BagTablesOf(BalancePool, MaxBalanceRows)})

NextBalance ==
    \/ AnalyzePortFlowEfficiency(BalancePeriods,
                                 {<<"passengers">>, <<"freight">>, <<"passengers", "freight", "mail">>},
                                 {"Month", "Year"}, {"Most"}, {<<>>}, {0}, {10})
    \/ Continue

SpecBalance == InitBalance /\ [][NextBalance]_vars

FlowReturn == call.fn = "analyze_port_flow_efficiency" /\ result.raised = "none"

\* port_data of the bucket of output row i with the columns the loop adds for the
\* cargo type: one row per port.
ScoredPorts(i, cargo_type) ==
    LET port_data == Aggregate(Table(df.columns, PortBucket(i)), "AustralianPort",
                               PortFlowAggDict(call.cargo_types))
    IN  [k \in DOMAIN port_data.rows |-> WithEfficiency(port_data.rows[k], cargo_type)]

PassengersIn(r) == r["Passengers_In"]
PassengersOut(r) == r["Passengers_Out"]

\* x = 1 - |1 - y| for rationals x and y with positive denominators.
IsOneMinusDistance(x, y) ==
    x[1] * y[2] = x[2] * (y[2] - Abs(y[2] - y[1]))

PassengerRows == {i \in DOMAIN result.rows : "Passengers_Ports" \in DOMAIN result.rows[i]}

\* C11 (as the code computes it): the passenger balance ratio of a port is
\* In / (Out + 1) and its efficiency 1 - |1 - ratio|; with In = Out the ratio is
\* In / (In + 1), below 1, and the efficiency equals it (In = Out = 50: 50/51, reported
\* as "0.980" when the port is alone in its bucket); ratio and efficiency are exactly
\* 1 if and only if In = Out + 1.
C11_BalancedFlowIsBelowOne ==
    FlowReturn =>
        \A i \in PassengerRows :
            LET ports == ScoredPorts(i, "passengers")
            IN  /\ \A k \in DOMAIN ports :
                    LET r == ports[k]
                    IN  /\ r.balance_ratio[2] > 0
                        /\ r.balance_ratio[1] * (PassengersOut(r) + 1)
                               = PassengersIn(r) * r.balance_ratio[2]
                        /\ IsOneMinusDistance(r.efficiency, r.balance_ratio)
                        /\ PassengersIn(r) = PassengersOut(r) =>
                               /\ r.balance_ratio = RatNorm(<<PassengersIn(r), PassengersIn(r) + 1>>)
                               /\ r.efficiency = r.balance_ratio
                               /\ r.balance_ratio # <<1, 1>>
                        /\ (r.balance_ratio = <<1, 1>>) <=> (PassengersIn(r) = PassengersOut(r) + 1)
                        /\ (r.efficiency = <<1, 1>>) <=> (PassengersIn(r) = PassengersOut(r) + 1)
                /\ (Len(ports) = 1 /\ PassengersIn(ports[1]) = 50 /\ PassengersOut(ports[1]) = 50) =>
                       result.rows[i]["Passengers_Avg_Efficiency"] = "0.980"
                /\ (Len(ports) = 1 /\ PassengersIn(ports[1]) = 51 /\ PassengersOut(ports[1]) = 50) =>
                       result.rows[i]["Passengers_Avg_Efficiency"] = "1.000"

\* A bucket whose only port has 50 passengers in and 50 out, reported with an
\* efficiency of 0.980.
C11_Witness ==
    /\ FlowReturn /\ PassengerRows # {}
    /\ \E i \in PassengerRows :
           LET ports == ScoredPorts(i, "passengers")
           IN  /\ Len(ports) = 1
               /\ PassengersIn(ports[1]) = 50 /\ PassengersOut(ports[1]) = 50
               /\ ports[1].balance_ratio = <<50, 51>>
               /\ result.rows[i]["Passengers_Avg_Efficiency"] = "0.980"

\* C11 (as stated): a port with passengers In = Out has a balance ratio of exactly 1
\* and an efficiency of exactly 1.
C11_BalancedFlowIsExactlyOne ==
    FlowReturn =>
        \A i \in PassengerRows :
            \A k \in DOMAIN ScoredPorts(i, "passengers") :
                LET r == ScoredPorts(i, "passengers")[k]
                IN  PassengersIn(r) = PassengersOut(r) =>
                        r.balance_ratio = <<1, 1>> /\ r.efficiency = <<1, 1>>

-----------------------------------------------------------------------------
(* Denominators: records with no foreign port, so no route, and hubs       *)
(* admitted with any route-count threshold.                                *)

MaxDivisionRows == 2

ProfileZero == <<0, 0, 0, 0, 0, 0>>

\* The second and third have no foreign port: their Route is NaN.
DivisionPool ==
    {MakeRecord(1985, m, pp[1], pp[2], pr) :
        m \in {1, 2},
        pp \in {<<"Sydney", "London">>, <<"Sydney", NaN>>, <<"Melbourne", NaN>>},
        pr \in {ProfileA, ProfileZero}}

InitDivision == InitWith({Table(AllCols, rows) : rows \in BagTablesOf(DivisionPool, MaxDivisionRows)})

NextDivision ==
    \/ AnalyzePortFlowEfficiency(BalancePeriods, {<<"passengers", "freight", "mail">>},
                                 {"Month", "Year"}, {"Most"}, {<<>>}, {0}, {10})
    \/ AnalyzeHubUtilization(BalancePeriods, {"Month", "Year"}, {"Most", "Least"}, {<<>>}, {0, 1},
                             {get_default_cargo_weights}, {1, 10})
    \/ Continue

SpecDivision == InitDivision /\ [][NextDivision]_vars

\* The number of distinct routes of a port in the records (nunique: NaN not counted).
DistinctRoutes(records, port) ==
    Cardinality({records[k]["Route"] :
                    k \in {n \in DOMAIN records : records[n]["AustralianPort"] = port}} \ {NaN})

\* Out of a cargo type summed over the records of a port.
PortOut(records, port, cargo_type) ==
    LET ofPort(r) == r["AustralianPort"] = port
    IN  SumCol(SelectSeq(records, ofPort), get_cargo_columns[cargo_type].out)

\* The hubs of the bucket of row i that pass the route-count filter of the call and
\* so reach the division by Unique_Routes.
HubsDivided(i) ==
    {port \in PortsOf(PortBucket(i)) \ {NaN} :
        DistinctRoutes(PortBucket(i), port) >= call.threshold}

\* C12: no division by zero is reachable: the denominator Out + epsilon of every
\* balance ratio is nonzero, and every hub that reaches the utilization division has
\* a distinct-route count different from zero, whatever min_routes_threshold is.
C12_NoZeroDenominator ==
    PortsReturn =>
        \A i \in DOMAIN result.rows :
            /\ call.fn = "analyze_port_flow_efficiency" =>
                   \A ct \in Range(call.cargo_types) \cap DOMAIN get_cargo_columns :
                       \A port \in PortsOf(PortBucket(i)) \ {NaN} :
                           PortOut(PortBucket(i), port, ct) + 1 # 0
            /\ call.fn = "analyze_hub_utilization" =>
                   \A port \in HubsDivided(i) : DistinctRoutes(PortBucket(i), port) # 0

\* A hub with no route that reaches the division under min_routes_threshold = 0: its
\* score, and the average reported, is inf.
C12_ZeroRouteHubDivided ==
    /\ PortsReturn /\ call.fn = "analyze_hub_utilization"
    /\ call.threshold = 0
    /\ \E i \in DOMAIN result.rows :
           /\ \E port \in HubsDivided(i) : DistinctRoutes(PortBucket(i), port) = 0
           /\ result.rows[i]["Avg_Utilization_Score"] = "inf"

-----------------------------------------------------------------------------
(* get_top_entities on its own: frames of scored entities, with equal      *)
(* scores among them.                                                      *)

MaxTopRows == 3

TopPool ==
    {MakeRecord(1985, 1, ap, "London", pr) :
        ap \in {"Sydney", "Melbourne"}, pr \in {ProfileA, ProfileB, ProfileBalanced}}

InitTop == InitWith({Table(AllCols, rows) : rows \in TablesOf(TopPool, MaxTopRows)})

\* get_top_entities called on the rows of the table, each with its index label and
\* its passenger efficiency as the score.
GetTopEntities(levels, top_ns) ==
    \E level \in levels, top_n \in top_ns :
        LET data == [i \in DOMAIN df.rows |->
                        WithEfficiency(df.rows[i], "passengers") @@ [index |-> i]]
        IN  /\ call.fn = "none"
            /\ call' = [fn |-> "get_top_entities", data |-> data, sort_col |-> "efficiency",
                        level |-> level, top_n |-> top_n]
            /\ result' = [raised |-> "none",
                          value |-> get_top_entities(data, "efficiency", level, top_n)]
            /\ UNCHANGED df

NextTop ==
    \/ GetTopEntities({"Most", "Least"}, {0, 1, 2, 3, 10})
    \/ Continue

SpecTop == InitTop /\ [][NextTop]_vars

TopCall == call.fn = "get_top_entities"

Min(a, b) == IF a < b THEN a ELSE b

\* The entities of the call that the result does not hold.
LeftOut == Range(call.data) \ Range(result.value)

RatLE(a, b) == ~RatLess(b, a)

\* C13: get_top_entities returns min(n, |entities|) entities, each one of the input
\* and none twice; all of them when n >= |entities|; under Most every entity
\* returned scores >= every entity left out, under Least <=; an empty input is
\* returned as is.
C13_TopEntities ==
    TopCall =>
        /\ Len(result.value) = Min(call.top_n, Len(call.data))
        /\ Range(result.value) \subseteq Range(call.data)
        /\ Cardinality(Range(result.value)) = Len(result.value)
        /\ call.top_n >= Len(call.data) => Range(result.value) = Range(call.data)
        /\ call.level = "Most" =>
               \A r \in Range(result.value), o \in LeftOut : RatLE(o.efficiency, r.efficiency)
        /\ call.level = "Least" =>
               \A r \in Range(result.value), o \in LeftOut : RatLE(r.efficiency, o.efficiency)
        /\ call.data = <<>> => result.value = <<>>

\* The two smallest of three entities with three different scores.
C13_Witness ==
    /\ TopCall /\ call.level = "Least" /\ call.top_n = 2
    /\ Len(call.data) = 3 /\ Len(result.value) = 2
    /\ \A o \in LeftOut, r \in Range(result.value) : RatLess(r.efficiency, o.efficiency)

-----------------------------------------------------------------------------
(* The volume threshold of analyze_port_flow_efficiency.                   *)

\* The sequences of n distinct members of S.
Arrangements(S, n) ==
    {s \in [1..n -> S] : \A a, b \in 1..n : a # b => s[a] # s[b]}

\* In of a cargo type summed over the records of a port.
PortIn(records, port, cargo_type) ==
    LET ofPort(r) == r["AustralianPort"] = port
    IN  SumCol(SelectSeq(records, ofPort), get_cargo_columns[cargo_type].in)

\* 1 - |1 - In / (Out + epsilon)| of a port, from its records (Out >= 0).
PortEfficiency(records, port, cargo_type) ==
    LET in == PortIn(records, port, cargo_type)
        d == PortOut(records, port, cargo_type) + 1
    IN  RatNorm(<<d - Abs(d - in), d>>)

\* The ports of the bucket of row i whose In + Out reaches the threshold of the call.
QualifyingPorts(i, cargo_type) ==
    {port \in PortsOf(PortBucket(i)) \ {NaN} :
        PortVolume(PortBucket(i), port, cargo_type) >= VolumeThreshold(cargo_type)}

\* The mean of the efficiencies of the ports of the sequence.
RECURSIVE EfficiencySum(_, _, _)
EfficiencySum(records, ports, cargo_type) ==
    IF ports = <<>> THEN <<0, 1>>
    ELSE RatAdd(PortEfficiency(records, ports[1], cargo_type),
                EfficiencySum(records, Tail(ports), cargo_type))

EfficiencyMean(records, ports, cargo_type) ==
    LET t == EfficiencySum(records, ports, cargo_type) IN RatNorm(<<t[1], t[2] * Len(ports)>>)

\* Every port of the sequence is at least as good, for the level of the call, as
\* every qualifying port outside it.
RanksFirst(i, ports, cargo_type) ==
    \A p \in Range(ports), o \in QualifyingPorts(i, cargo_type) \ Range(ports) :
        IF call.level = "Least"
        THEN RatLE(PortEfficiency(PortBucket(i), p, cargo_type),
                   PortEfficiency(PortBucket(i), o, cargo_type))
        ELSE RatLE(PortEfficiency(PortBucket(i), o, cargo_type),
                   PortEfficiency(PortBucket(i), p, cargo_type))

\* The two fields of the cargo type in row i name the sequence of ports and average
\* its efficiencies.
ReportsPorts(i, ports, cargo_type) ==
    /\ FieldIs(result.rows[i], Title(cargo_type) \o "_Ports", Join(ports))
    /\ FieldIs(result.rows[i], Title(cargo_type) \o "_Avg_Efficiency",
               FormatFixed(EfficiencyMean(PortBucket(i), ports, cargo_type), 3))

\* C14: every port named in <Cargo>_Ports has In + Out >= min_volume_threshold in its
\* bucket; the ports below it are removed before the ranking: the row names the
\* min(top_n, number of qualifying ports) best qualifying ports and averages their
\* efficiencies only, and reads "No data" when no port qualifies.
C14_ThresholdBeforeRanking ==
    (PortsReturn /\ call.fn = "analyze_port_flow_efficiency") =>
        \A i \in DOMAIN result.rows :
            \A ct \in Range(call.cargo_types) :
                IF QualifyingPorts(i, ct) = {}
                THEN AllNoData(i, {Title(ct) \o "_Ports", Title(ct) \o "_Avg_Efficiency"})
                ELSE \E ports \in Arrangements(QualifyingPorts(i, ct),
                                               Min(call.top_n, Cardinality(QualifyingPorts(i, ct)))) :
                         ReportsPorts(i, ports, ct) /\ RanksFirst(i, ports, ct)

\* One slot, level Most: the most efficient port of the bucket is below the
\* threshold, and the row names the qualifying port.
C14_Witness ==
    /\ PortsReturn /\ call.fn = "analyze_port_flow_efficiency"
    /\ call.level = "Most" /\ call.top_n = 1 /\ call.threshold = 100
    /\ \E i \in DOMAIN result.rows :
           /\ QualifyingPorts(i, "passengers") = {"Melbourne"}
           /\ "Sydney" \in PortsOf(PortBucket(i))
           /\ RatLess(PortEfficiency(PortBucket(i), "Melbourne", "passengers"),
                      PortEfficiency(PortBucket(i), "Sydney", "passengers"))
           /\ FieldIs(result.rows[i], "Passengers_Ports", "Melbourne")

-----------------------------------------------------------------------------
(* The route-count threshold and the score of analyze_hub_utilization,     *)
(* with the default weights and with weights of the caller.                *)

CustomWeights == [passengers |-> 3, freight |-> 2, mail |-> 5]

NextHub ==
    \/ AnalyzeHubUtilization(PortPeriods, {"Month", "Year"}, {"Most", "Least"}, {<<>>}, {1, 2},
                             {NoWeights, get_default_cargo_weights, CustomWeights}, {1, 2})
    \/ Continue

SpecHub == InitThreshold /\ [][NextHub]_vars

HubReturn == call.fn = "analyze_hub_utilization" /\ result.raised = "none"

\* The weights the claim gives: those of the caller, or freight 10 and mail 20.
ClaimedFreightWeight == IF call.cargo_weights = NoWeights THEN 10 ELSE call.cargo_weights.freight
ClaimedMailWeight == IF call.cargo_weights = NoWeights THEN 20 ELSE call.cargo_weights.mail

PortTotal(records, port, col) ==
    LET ofPort(r) == r["AustralianPort"] = port
    IN  SumCol(SelectSeq(records, ofPort), col)

\* (Passengers_Total + Freight_Total * w_freight + Mail_Total * w_mail) / routes of
\* a hub with at least one route, the tonnages being in thousandths.
HubScore(records, port) ==
    RatNorm(<<PortTotal(records, port, "Passengers_Total") * 1000
                  + PortTotal(records, port, "Freight_Total_(tonnes)") * ClaimedFreightWeight
                  + PortTotal(records, port, "Mail_Total_(tonnes)") * ClaimedMailWeight,
              1000 * DistinctRoutes(records, port)>>)

RECURSIVE HubScoreSum(_, _)
HubScoreSum(records, ports) ==
    IF ports = <<>> THEN <<0, 1>>
    ELSE RatAdd(HubScore(records, ports[1]), HubScoreSum(records, Tail(ports)))

HubScoreMean(records, ports) ==
    LET t == HubScoreSum(records, ports) IN RatNorm(<<t[1], t[2] * Len(ports)>>)

HubsRankFirst(i, ports) ==
    \A p \in Range(ports), o \in HubsDivided(i) \ Range(ports) :
        IF call.level = "Least"
        THEN RatLE(HubScore(PortBucket(i), p), HubScore(PortBucket(i), o))
        ELSE RatLE(HubScore(PortBucket(i), o), HubScore(PortBucket(i), p))

\* C15: every hub named in Hub_Ports has a distinct-route count >=
\* min_routes_threshold in its bucket; the hubs below it are removed before the
\* score is computed; the score of a remaining hub is (Passengers_Total +
\* Freight_Total * w_freight + Mail_Total * w_mail) / distinct routes, with freight
\* 10 and mail 20 when no weights are given; the row names the best of them and
\* averages their scores.
C15_HubThresholdAndScore ==
    HubReturn =>
        \A i \in DOMAIN result.rows :
            IF HubsDivided(i) = {}
            THEN AllNoData(i, {"Hub_Ports", "Avg_Utilization_Score", "Avg_Routes"})
            ELSE \E ports \in Arrangements(HubsDivided(i),
                                           Min(call.top_n, Cardinality(HubsDivided(i)))) :
                     /\ FieldIs(result.rows[i], "Hub_Ports", Join(ports))
                     /\ FieldIs(result.rows[i], "Avg_Utilization_Score",
                                FormatFixed(HubScoreMean(PortBucket(i), ports), 1))
                     /\ HubsRankFirst(i, ports)

\* No weights given; a hub with one route is removed by a threshold of two routes and
\* the hub with two routes is named, its score (360 + 10 * 4.4 + 20 * 0.4) / 2.
C15_Witness ==
    /\ HubReturn /\ call.cargo_weights = NoWeights
    /\ call.threshold = 2
    /\ \E i \in DOMAIN result.rows :
           /\ PortsOf(PortBucket(i)) = {"Sydney", "Melbourne"}
           /\ HubsDivided(i) = {"Sydney"}
           /\ FieldIs(result.rows[i], "Hub_Ports", "Sydney")
           /\ FieldIs(result.rows[i], "Avg_Utilization_Score", "206.0")

-----------------------------------------------------------------------------
(* Cargo types outside the mapping of get_cargo_columns.                   *)

CargoLists ==
    {<<"passengers">>, <<"cars", "passengers">>, <<"passengers", "cars", "freight">>, <<"cars">>}

NextCargo ==
    \/ AnalyzePortFlowEfficiency(BalancePeriods, CargoLists, {"Month", "Year"}, {"Most"},
                                 {<<>>}, {0}, {10})
    \/ Continue

SpecCargo == InitBalance /\ [][NextCargo]_vars

IsKnownCargo(cargo_type) == cargo_type \in DOMAIN get_cargo_columns

\* The call of analyze_port_flow_efficiency has a cargo type outside the mapping.
UnknownCargoCall ==
    /\ call.fn = "analyze_port_flow_efficiency"
    /\ \E ct \in Range(call.cargo_types) : ~IsKnownCargo(ct)

\* The outcome of the same call without the unknown members of cargo_types.
SameCallKnownOnly ==
    LET p == call.period
    IN  analyze_port_flow_efficiency(df, p[1], p[2], p[3], p[4],
            SelectSeq(call.cargo_types, IsKnownCargo), call.aggregate_by, call.level,
            call.specific_ports, call.threshold, call.top_n)

\* The keys of an output row for the known members of cargo_types.
KnownCargoKeys ==
    UNION {{Title(ct) \o "_Ports", Title(ct) \o "_Avg_Efficiency"} :
              ct \in {c \in Range(call.cargo_types) : IsKnownCargo(c)}}

\* C16: a member of cargo_types outside {passengers, freight, mail} raises no
\* exception and adds no field to any row, and the fields of the known members are
\* those of the call without it; also when every member is unknown.
C16_UnknownCargoIgnored ==
    UnknownCargoCall =>
        /\ result.raised = "none"
        /\ \A i \in DOMAIN result.rows :
               DOMAIN result.rows[i] \subseteq {"Year", "Month"} \cup KnownCargoKeys
        /\ SelectSeq(call.cargo_types, IsKnownCargo) # <<>> =>
               result.rows = SameCallKnownOnly.rows

\* Every member of cargo_types is unknown and a record is in range: the aggregation
\* of the first bucket raises.
C16_AllUnknownRaises ==
    /\ UnknownCargoCall
    /\ SelectSeq(call.cargo_types, IsKnownCargo) = <<>>
    /\ result.filtered_df.rows # <<>>
    /\ result.raised = "ValueError"

\* An unknown member next to known ones is ignored.
C16_SomeUnknownIgnored ==
    (UnknownCargoCall /\ SelectSeq(call.cargo_types, IsKnownCargo) # <<>>) =>
        /\ result.raised = "none"
        /\ result.rows = SameCallKnownOnly.rows

-----------------------------------------------------------------------------
(* Regional growth: countries over three years, present in some of them.   *)

MaxGrowthRows == 3

GrowthYears == 1984..1986

GrowthPool ==
    {MakeRecord(y, 1, "Sydney", fp, pr) :
        y \in GrowthYears, fp \in {"London", "Tokyo"}, pr \in {ProfileA, ProfileB}}

GrowthPeriods == {<<1984, 1, 1986, 1>>, <<1985, 1, 1986, 1>>}

InitGrowth == InitWith({Table(AllCols, rows) : rows \in BagTablesOf(GrowthPool, MaxGrowthRows)})

NextGrowth ==
    \/ AnalyzeGeographicalPatterns(GrowthPeriods, {"regional_growth"}, {1, 10})
    \/ Continue

SpecGrowth == InitGrowth /\ [][NextGrowth]_vars

GrowthReturn ==
    /\ call.fn = "analyze_geographical_patterns"
    /\ call.pattern_type = "regional_growth"
    /\ result.raised = "none"

\* The latest year of the filtered record set (of a set that is not empty).
LatestYear == CHOOSE y \in PresentYears : \A z \in PresentYears : z <= y

\* The years in which the filtered record set has a record of the country.
YearsOfCountry(country) ==
    {result.filtered_df.rows[k]["Year"] :
        k \in {n \in DOMAIN result.filtered_df.rows :
                  result.filtered_df.rows[n]["Country"] = country}}

\* Passengers_Total of the country in the year, over the filtered record set.
CountryTotal(country, year) ==
    LET of(r) == r["Country"] = country /\ r["Year"] = year
    IN  SumCol(SelectSeq(result.filtered_df.rows, of), "Passengers_Total")

C19_AgainstPreviousCalendarYear ==
    GrowthReturn =>
        \A i \in DOMAIN result.rows :
            LET c == result.rows[i].Country
            IN  /\ (LatestYear - 1) \in YearsOfCountry(c)
                /\ result.rows[i].prev_year_passengers = CountryTotal(c, LatestYear - 1)
                /\ result.rows[i].growth_rate[1] * CountryTotal(c, LatestYear - 1)
                       = result.rows[i].growth_rate[2] * 100
                             * (CountryTotal(c, LatestYear) - CountryTotal(c, LatestYear - 1))

\* A country with records in L and L - 2 and none in L - 1 is reported, its growth
\* computed against L - 2.
C19_GapYearBaseline ==
    /\ GrowthReturn /\ PresentYears # {}
    /\ \E i \in DOMAIN result.rows :
           LET c == result.rows[i].Country
           IN  /\ YearsOfCountry(c) = {LatestYear, LatestYear - 2}
               /\ result.rows[i].prev_year_passengers = CountryTotal(c, LatestYear - 2)

-----------------------------------------------------------------------------
(* Purity: what a call leaves of the caller's table, and the same call     *)
(* made again on it.                                                       *)

Analyses ==
    {"analyze_traffic_routes", "analyze_port_flow_efficiency", "analyze_hub_utilization",
     "analyze_geographical_patterns"}

\* Every assignment of the call goes to the caller's own frame.
AssignedFrameCaller(fn) == "df"

\* The frame the column assignments of an analysis go to: port_data and hub_data are
\* the aggregated frames of filter_and_aggregate_by_period and yearly_country the
\* result of groupby().agg().reset_index(), all built by the call from the copy
\* filter_data_by_period returns; analyze_traffic_routes assigns to no frame.
AssignedFrame(fn) ==
    CASE fn = "analyze_port_flow_efficiency" -> "port_data"
      [] fn = "analyze_hub_utilization" -> "hub_data"
      [] fn = "analyze_geographical_patterns" -> "yearly_country"
      [] OTHER -> "none"

\* The columns the call assigns.
ColumnsAssigned(fn, cargo_types) ==
    CASE fn = "analyze_port_flow_efficiency" ->
             UNION {{ct \o "_balance_ratio", ct \o "_efficiency", ct \o "_total_volume"} :
                       ct \in Range(cargo_types) \cap DOMAIN get_cargo_columns}
      [] fn = "analyze_hub_utilization" -> {"totalPassengerEquiv", "utilizationScore"}
      [] fn = "analyze_geographical_patterns" -> {"prev_year_passengers", "growth_rate"}
      [] OTHER -> {}

\* The caller's table once the call has returned: with the assigned columns if they
\* went to it, as it was otherwise.
FrameAfterCall(data, fn, cargo_types) ==
    IF AssignedFrame(fn) = "df"
    THEN Table(data.columns \cup ColumnsAssigned(fn, cargo_types),
               [i \in DOMAIN data.rows |->
                   data.rows[i] @@ [c \in ColumnsAssigned(fn, cargo_types) |-> 0]])
    ELSE data

\* One call of the analysis, with the defaults of its signature but for the
\* granularity, the cargo types and top_n.
RunAnalysis(fn, data, p, aggregate_by, cargo_types, top_n) ==
    CASE fn = "analyze_traffic_routes" ->
             analyze_traffic_routes(data, p[1], p[2], p[3], p[4], "Most", "Passengers", aggregate_by)
      [] fn = "analyze_port_flow_efficiency" ->
             analyze_port_flow_efficiency(data, p[1], p[2], p[3], p[4], cargo_types, aggregate_by,
                                          "Most", <<>>, 0, top_n)
      [] fn = "analyze_hub_utilization" ->
             analyze_hub_utilization(data, p[1], p[2], p[3], p[4], aggregate_by, "Most", <<>>, 1,
                                     NoWeights, top_n)
      [] fn = "analyze_geographical_patterns" ->
             analyze_geographical_patterns(data, p[1], p[2], p[3], p[4], "regional_growth", top_n)

\* The caller makes a call, keeps its outcome, and makes the same call again on the
\* table it still holds.
RepeatAnalysis(periods, granularities, cargo_lists, top_ns) ==
    \E fn \in Analyses, p \in periods, aggregate_by \in granularities,
       cargo_types \in cargo_lists, top_n \in top_ns :
        LET after == FrameAfterCall(df, fn, cargo_types)
        IN  /\ call.fn = "none"
            /\ call' = [fn |-> "repeat", analysis |-> fn, period |-> p, data |-> df,
                        aggregate_by |-> aggregate_by, cargo_types |-> cargo_types,
                        top_n |-> top_n]
            /\ result' = [raised |-> "none",
                          first |-> RunAnalysis(fn, df, p, aggregate_by, cargo_types, top_n),
                          second |-> RunAnalysis(fn, after, p, aggregate_by, cargo_types, top_n),
                          after_first |-> after]
            /\ df' = FrameAfterCall(after, fn, cargo_types)

NextPure ==
    \/ RepeatAnalysis(PortPeriods, {"Month", "Year"}, {<<"passengers">>, <<"freight", "mail">>}, {1, 10})
    \/ Continue

SpecPure == InitThreshold /\ [][NextPure]_vars

RepeatCall == call.fn = "repeat"

-----------------------------------------------------------------------------
(* Independence of the buckets, and of the cargo types within a bucket.    *)

NextBuckets ==
    \/ AnalyzeTrafficRoutes(PortPeriods, {"Most"}, {"Passengers"}, {"Month", "Year"})
    \/ AnalyzePortFlowEfficiency(PortPeriods,
                                 {<<"passengers">>, <<"freight", "passengers">>,
                                  <<"passengers", "mail", "freight">>},
                                 {"Month", "Year"}, {"Most"}, {<<>>}, {0, 100}, {1})
    \/ AnalyzeHubUtilization(PortPeriods, {"Month", "Year"}, {"Most"}, {<<>>}, {1, 2},
                             {NoWeights}, {1})
    \/ Continue

SpecBuckets == InitThreshold /\ [][NextBuckets]_vars

BucketsReturn ==
    /\ call.fn \in {"analyze_traffic_routes", "analyze_port_flow_efficiency",
                    "analyze_hub_utilization"}
    /\ result.raised = "none"

\* The outcome of the same call on a table that holds nothing but the filtered
\* records of the period of output row i.
SameCallOnPeriod(i) ==
    LET t == Table(df.columns, PortBucket(i))
        p == call.period
    IN  IF call.fn = "analyze_traffic_routes"
        THEN analyze_traffic_routes(t, p[1], p[2], p[3], p[4], call.traffic_level,
                                    call.traffic_type, call.aggregate_by)
        ELSE SameCallOnBucket(i)

\* The outcome of the port flow call with cargo_type as its only cargo type.
SameCallOneCargo(cargo_type) ==
    LET p == call.period
    IN  analyze_port_flow_efficiency(df, p[1], p[2], p[3], p[4], <<cargo_type>>,
            call.aggregate_by, call.level, call.specific_ports, call.threshold, call.top_n)

CargoKeys(cargo_type) == {Title(cargo_type) \o "_Ports", Title(cargo_type) \o "_Avg_Efficiency"}

\* C20: the output row of a period is the row the same call yields on the filtered
\* records of that period alone, so it does not depend on the records of other
\* periods; and in a row of analyze_port_flow_efficiency the fields of a cargo type
\* are those of the call that requests that cargo type only, so they depend neither
\* on the other cargo types requested nor on their order.
C20_BucketsAreIndependent ==
    BucketsReturn =>
        /\ \A i \in DOMAIN result.rows :
               /\ Len(SameCallOnPeriod(i).rows) = 1
               /\ result.rows[i] = SameCallOnPeriod(i).rows[1]
        /\ call.fn = "analyze_port_flow_efficiency" =>
               \A ct \in Range(call.cargo_types) :
                   /\ Len(SameCallOneCargo(ct).rows) = Len(result.rows)
                   /\ \A i \in DOMAIN result.rows : \A k \in CargoKeys(ct) :
                          /\ k \in DOMAIN result.rows[i]
                          /\ result.rows[i][k] = SameCallOneCargo(ct).rows[i][k]

\* Two buckets and two cargo types, freight requested before passengers: the
\* passenger fields name a port where the freight fields of the same row read "No
\* data" under the same threshold.
C20_Witness ==
    /\ BucketsReturn /\ call.fn = "analyze_port_flow_efficiency"
    /\ call.cargo_types = <<"freight", "passengers">>
    /\ call.threshold = 100
    /\ Len(result.rows) = 2
    /\ \E i \in DOMAIN result.rows :
           /\ result.rows[i]["Freight_Ports"] = "No data"
           /\ result.rows[i]["Passengers_Ports"] # "No data"

-----------------------------------------------------------------------------
(* The period filter applied twice, and the port allowlist.                *)

\* Two years, one year with start_month <= end_month, and start after end.
AllowPeriods == {<<1985, 2, 1986, 1>>, <<1985, 1, 1985, 1>>, <<1986, 2, 1985, 1>>}

\* specific_ports: none, one port, two ports, a port no record has.
AllowLists == {<<>>, <<"Sydney">>, <<"Melbourne", "Sydney">>, <<"Perth">>}

NextAllow ==
    \/ AnalyzePortFlowEfficiency(AllowPeriods, {<<"passengers">>}, {"Month", "Year"}, {"Most"},
                                 AllowLists, {0}, {10})
    \/ AnalyzeHubUtilization(AllowPeriods, {"Month", "Year"}, {"Most"}, AllowLists, {1},
                             {NoWeights}, {10})
    \/ Continue

SpecAllow == InitPorts /\ [][NextAllow]_vars

\* The period filter of the call.
CallFilter(t) ==
    filter_data_by_period(t, call.period[1], call.period[2], call.period[3], call.period[4])

CallAggDict ==
    IF call.fn = "analyze_port_flow_efficiency" THEN PortFlowAggDict(call.cargo_types)
    ELSE HubAggDict

\* The buckets filter_and_aggregate_by_period returns for the table: it filters the
\* table by the period of the call, once.
CallBuckets(t) ==
    filter_and_aggregate_by_period(t, call.period[1], call.period[2], call.period[3],
                                   call.period[4], "AustralianPort", CallAggDict,
                                   call.aggregate_by)

\* The outcome of the call on another table, with no allowlist.
SameCallNoAllowlist(t) ==
    LET p == call.period
    IN  IF call.fn = "analyze_port_flow_efficiency"
        THEN analyze_port_flow_efficiency(t, p[1], p[2], p[3], p[4], call.cargo_types,
                 call.aggregate_by, call.level, <<>>, call.threshold, call.top_n)
        ELSE analyze_hub_utilization(t, p[1], p[2], p[3], p[4], call.aggregate_by, call.level,
                 <<>>, call.threshold, call.cargo_weights, call.top_n)

\* The field of a row that names ports.
PortsField == IF call.fn = "analyze_port_flow_efficiency" THEN "Passengers_Ports" ELSE "Hub_Ports"

\* The string names ports of S only, each once.
NamesPortsOf(str, S) ==
    \E n \in 1..Cardinality(S) : \E ports \in Arrangements(S, n) : str = Join(ports)

\* C21: the period filter is idempotent and commutes with the port allowlist; the
\* buckets of analyze_port_flow_efficiency and analyze_hub_utilization, which filter
\* by period, then by allowlist, then by period again inside
\* filter_and_aggregate_by_period, are those of a single period filter; every port
\* reported is in specific_ports when it is not empty, and an empty list or None
\* restricts nothing.
C21_FilterTwiceAndAllowlist ==
    PortsReturn =>
        /\ CallFilter(CallFilter(df)) = CallFilter(df)
        /\ RestrictToPorts(CallFilter(df), call.specific_ports)
               = CallFilter(RestrictToPorts(df, call.specific_ports))
        /\ result.filtered_df = RestrictToPorts(CallFilter(df), call.specific_ports)
        /\ CallBuckets(result.filtered_df) = CallBuckets(RestrictToPorts(df, call.specific_ports))
        /\ result.rows = SameCallNoAllowlist(RestrictToPorts(df, call.specific_ports)).rows
        /\ call.specific_ports # <<>> =>
               \A i \in DOMAIN result.rows :
                   \/ result.rows[i][PortsField] = "No data"
                   \/ NamesPortsOf(result.rows[i][PortsField], Range(call.specific_ports))
        /\ call.specific_ports = <<>> => result.filtered_df = CallFilter(df)

\* An allowlist of one port on a table with a record of another port in range, the
\* range one year with start_month <= end_month: one row, naming the listed port.
C21_Witness ==
    /\ PortsReturn /\ call.specific_ports = <<"Sydney">>
    /\ call.period = <<1985, 1, 1985, 1>>
    /\ Len(CallFilter(df).rows) = 2
    /\ "Melbourne" \in PortsOf(CallFilter(df).rows)
    /\ Len(result.filtered_df.rows) = 1
    /\ Len(result.rows) = 1
    /\ result.rows[1][PortsField] = "Sydney"

====
